---- MODULE Spec2Model ----
(***************************************************************************)
(* Verification model of the smart-notes-app backend: the text-enrichment  *)
(* pipeline (summarizer, keyword extractor, sentiment classifier, text     *)
(* statistics, orchestrator), the media adapters' selection policies and   *)
(* the note write handlers.                                                *)
(*                                                                         *)
(* Python str values are TLA+ strings; TLC evaluates Len, \o and SubSeq on *)
(* them, so every string operation below is computed character by          *)
(* character as the Python code computes it.                               *)
(***************************************************************************)
EXTENDS Integers, Sequences, FiniteSets, TLC

VARIABLES
    text,      \* the text handed to process_text_with_ai
    env,       \* which AI services exist after the initialization of app.py
    ext,       \* what the external models did during the call
    record,    \* the value process_text_with_ai returned
    pc,        \* the operation that acted last
    media,     \* the input of the last media adapter call
    results,   \* the dict the last media adapter call returned
    notes,     \* the notes table: the row of every note id that exists
    request,   \* the write request handled last
    response   \* the response it got

vars == <<text, env, ext, record, pc, media, results, notes, request, response>>

----------------------------------------------------------------------------
(* Bounds of the model (not program constants).                            *)

\* largest number of words of a generated input text
MaxWords == 16

\* largest number of rows of the notes table
MaxNotes == 1

\* the values CURRENT_TIMESTAMP takes are 1..MaxTime
MaxTime == 2

\* largest number of one-word sentences of a text handed to a text service
MaxSentences == 7

\* number of words of the long texts built from a seven-letter word
MaxLongWords == 110

----------------------------------------------------------------------------
(* Python str primitives.                                                  *)

Ch(s, i) == SubSeq(s, i, i)

UPPER == "ABCDEFGHIJKLMNOPQRSTUVWXYZ"
LOWER == "abcdefghijklmnopqrstuvwxyz"

UpperSet == {Ch(UPPER, i) : i \in 1..26}
LowerSet == {Ch(LOWER, i) : i \in 1..26}

\* str.isspace for the characters that occur in the modelled texts
IsSpace(c) == c \in {" ", "\n", "\t"}

\* the character class [a-zA-Z]
IsAlpha(c) == c \in UpperSet \/ c \in LowerSet

LowerChar(c) ==
    IF c \in UpperSet
    THEN Ch(LOWER, CHOOSE i \in 1..26 : Ch(UPPER, i) = c)
    ELSE c

RECURSIVE LowerRange(_, _, _)
LowerRange(s, lo, hi) ==
    IF lo > hi THEN ""
    ELSE IF lo = hi THEN LowerChar(Ch(s, lo))
    ELSE LET mid == (lo + hi) \div 2
         IN  LowerRange(s, lo, mid) \o LowerRange(s, mid + 1, hi)

\* str.lower()
Lower(s) == LowerRange(s, 1, Len(s))

\* `sub in s`
Contains(s, sub) ==
    \E i \in 1..(Len(s) - Len(sub) + 1) : SubSeq(s, i, i + Len(sub) - 1) = sub

\* s[:n]
Prefix(s, n) == IF Len(s) > n THEN SubSeq(s, 1, n) ELSE s

\* the elements of a finite set S of integers of lo..hi in increasing order
RECURSIVE SortedIn(_, _, _)
SortedIn(S, lo, hi) ==
    IF S = {} THEN <<>>
    ELSE IF lo = hi THEN <<lo>>
    ELSE LET mid  == (lo + hi) \div 2
             left == {x \in S : x <= mid}
         IN  SortedIn(left, lo, mid) \o SortedIn(S \ left, mid + 1, hi)

\* str.strip()
Strip(s) ==
    IF \A i \in 1..Len(s) : IsSpace(Ch(s, i)) THEN ""
    ELSE LET a == CHOOSE i \in 1..Len(s) :
                      ~IsSpace(Ch(s, i)) /\ \A j \in 1..(i - 1) : IsSpace(Ch(s, j))
             b == CHOOSE i \in 1..Len(s) :
                      ~IsSpace(Ch(s, i)) /\ \A j \in (i + 1)..Len(s) : IsSpace(Ch(s, j))
         IN  SubSeq(s, a, b)

\* str.split() without arguments: the maximal runs of non-whitespace
split(s) ==
    LET starts == SortedIn({i \in 1..Len(s) :
                     ~IsSpace(Ch(s, i)) /\ (i = 1 \/ IsSpace(Ch(s, i - 1)))},
                     1, Len(s))
        ends   == SortedIn({i \in 1..Len(s) :
                     ~IsSpace(Ch(s, i)) /\ (i = Len(s) \/ IsSpace(Ch(s, i + 1)))},
                     1, Len(s))
    IN  [k \in 1..Len(starts) |-> SubSeq(s, starts[k], ends[k])]

\* str.split(sep): the positions where the left-to-right scan cuts.  Exact for
\* the separators the program uses (".", ". ", "\n\n"): a separator that can
\* only overlap itself inside a run of one repeated character.
SepCuts(s, sep) ==
    LET L   == Len(sep)
        occ == {i \in 1..(Len(s) - L + 1) : SubSeq(s, i, i + L - 1) = sep}
        \* how many occurrences start at the positions right before i
        before(i) == CHOOSE d \in 0..(i - 1) :
                         (i - d - 1) \notin occ /\ \A e \in 1..d : (i - e) \in occ
    IN  IF L = 1 THEN occ ELSE {i \in occ : before(i) % L = 0}

SplitOn(s, sep) ==
    LET L    == Len(sep)
        cuts == SortedIn(SepCuts(s, sep), 1, Len(s))
        m    == Len(cuts)
    IN  [k \in 1..(m + 1) |->
            SubSeq(s, IF k = 1 THEN 1 ELSE cuts[k - 1] + L,
                      IF k = m + 1 THEN Len(s) ELSE cuts[k] - 1)]

RECURSIVE JoinRange(_, _, _, _)
JoinRange(ws, sep, lo, hi) ==
    IF lo > hi THEN ""
    ELSE IF lo = hi THEN ws[lo]
    ELSE LET mid == (lo + hi) \div 2
         IN  JoinRange(ws, sep, lo, mid) \o sep \o JoinRange(ws, sep, mid + 1, hi)

\* sep.join(ws)
Join(ws, sep) == JoinRange(ws, sep, 1, Len(ws))

Max2(a, b) == IF a >= b THEN a ELSE b
Min2(a, b) == IF a <= b THEN a ELSE b

----------------------------------------------------------------------------
(* Results of calls that may raise: a value, or a propagating exception.   *)

Ok(v) == [ok |-> TRUE, val |-> v]
Raised == [ok |-> FALSE, val |-> <<>>]

\* seq[:k] on a list
PyHead(seq, k) ==
    IF k >= 0 THEN SubSeq(seq, 1, Min2(k, Len(seq)))
    ELSE SubSeq(seq, 1, Max2(Len(seq) + k, 0))

----------------------------------------------------------------------------
(* services/nlp_processor.py                                               *)

\* NLPProcessor.get_text_statistics.  The two float fields are kept exact, as
\* the pair <<numerator, denominator>> of the division the code performs.
StatKeys == {"word_count", "sentence_count", "paragraph_count",
             "character_count", "avg_words_per_sentence", "reading_time_minutes"}

NonBlankCount(segs) == Cardinality({k \in DOMAIN segs : Strip(segs[k]) # ""})

get_text_statistics(t) ==
    LET words      == split(t)
        sentences  == SplitOn(t, ".")
        paragraphs == SplitOn(t, "\n\n")
        sc         == NonBlankCount(sentences)
    IN  [word_count             |-> Len(words),
         sentence_count         |-> sc,
         paragraph_count        |-> NonBlankCount(paragraphs),
         character_count        |-> Len(t),
         avg_words_per_sentence |-> <<Len(words), Max2(sc, 1)>>,
         reading_time_minutes   |-> <<Len(words), 200>>]

RECURSIVE CleanRange(_, _, _)
CleanRange(s, lo, hi) ==
    IF lo > hi THEN ""
    ELSE IF lo = hi
         THEN (IF IsAlpha(Ch(s, lo)) \/ IsSpace(Ch(s, lo)) THEN Ch(s, lo) ELSE "")
    ELSE LET mid == (lo + hi) \div 2
         IN  CleanRange(s, lo, mid) \o CleanRange(s, mid + 1, hi)

\* NLPProcessor._clean_text
clean_text(t) ==
    LET lowered == Lower(t)
        cleaned == CleanRange(lowered, 1, Len(lowered))
    IN  Join(split(cleaned), " ")

\* the stop_words literal of _simple_keyword_extraction
stop_words ==
    {"the", "a", "an", "and", "or", "but", "in", "on", "at", "to", "for", "of",
     "with", "by", "is", "are", "was", "were", "be", "been", "have", "has",
     "had", "do", "does", "did", "will", "would", "could", "should", "may",
     "might", "can", "this", "that", "these", "those"}

\* the distinct elements of ws, each with its number of occurrences, in the
\* order sorted(..., key=count, reverse=True) leaves them: descending count,
\* ties in order of first occurrence (dict insertion order, stable sort)
FrequencyRanking(ws) ==
    LET first    == {i \in 1..Len(ws) : \A j \in 1..(i - 1) : ws[j] # ws[i]}
        count(i) == Cardinality({j \in 1..Len(ws) : ws[j] = ws[i]})
        rank(i)  == 1 + Cardinality({j \in first :
                        count(j) > count(i) \/ (count(j) = count(i) /\ j < i)})
    IN  [r \in 1..Cardinality(first) |-> ws[CHOOSE i \in first : rank(i) = r]]

IsKeywordCandidate(w) == w \notin stop_words /\ Len(w) > 2

\* _simple_keyword_extraction that filters the stop words only
simple_keyword_extraction_any_length(t, max_keywords) ==
    LET words          == split(t)
        filtered_words == SelectSeq(words, LAMBDA w : w \notin stop_words)
    IN  PyHead(FrequencyRanking(filtered_words), max_keywords)

\* NLPProcessor._simple_keyword_extraction
simple_keyword_extraction(t, max_keywords) ==
    LET words          == split(t)
        filtered_words == SelectSeq(words, IsKeywordCandidate)
    IN  PyHead(FrequencyRanking(filtered_words), max_keywords)

\* NLPProcessor.extract_keywords_fallback
extract_keywords_fallback(t, max_keywords) ==
    simple_keyword_extraction(clean_text(t), max_keywords)

\* sklearn's TfidfVectorizer(max_features, stop_words='english',
\* ngram_range=(1, 2)) on one document, when it does not raise: tokens of two
\* or more characters that are not English stop words, their unigrams and
\* bigrams, scored by term frequency (one document: the idf factor is the same
\* for every term), the vocabulary in alphabetical order.
ENGLISH_STOP_WORDS ==
    {"the", "a", "an", "and", "or", "but", "in", "on", "at", "to", "for", "of",
     "with", "by", "is", "are", "was", "were", "be", "been", "have", "has",
     "had", "do", "will", "would", "could", "should", "may", "might", "can",
     "this", "that", "these", "those", "go", "not", "no", "very", "it", "as"}

CharCode(c) == IF c \in LowerSet THEN CHOOSE i \in 1..26 : Ch(LOWER, i) = c ELSE 0

StrLess(a, b) ==
    \E i \in 1..(Min2(Len(a), Len(b)) + 1) :
        /\ SubSeq(a, 1, i - 1) = SubSeq(b, 1, i - 1)
        /\ \/ i > Len(a) /\ i <= Len(b)
           \/ i <= Len(a) /\ i <= Len(b) /\ CharCode(Ch(a, i)) < CharCode(Ch(b, i))

IsTfidfToken(w) == Len(w) >= 2 /\ w \notin ENGLISH_STOP_WORDS

TfidfTerms(cleaned) ==
    LET toks == SelectSeq(split(cleaned), IsTfidfToken)
    IN  toks \o [i \in 1..(Len(toks) - 1) |-> toks[i] \o " " \o toks[i + 1]]

TfidfKeywords(cleaned, max_keywords) ==
    LET grams    == TfidfTerms(cleaned)
        terms    == {grams[i] : i \in DOMAIN grams}
        score(t) == Cardinality({i \in DOMAIN grams : grams[i] = t})
        rank(t)  == 1 + Cardinality({u \in terms :
                        score(u) > score(t) \/ (score(u) = score(t) /\ StrLess(u, t))})
    IN  [r \in 1..Min2(max_keywords, Cardinality(terms)) |->
            CHOOSE t \in terms : rank(t) = r]

\* outcomes of vectorizer.fit_transform: it returns scores, or it raises
TfidfOutcomes == {"ok", "raises"}

\* NLPProcessor.extract_keywords.  Nothing between the outer try and the inner
\* one raises on a str, so the outer except branch is not reached; the
\* vectorizer raises on an empty vocabulary and on max_features <= 0.
extract_keywords(t, max_keywords, tfidf) ==
    LET cleaned_text == clean_text(t)
        tokens       == split(cleaned_text)
    IN  IF Len(tokens) < 5 THEN Ok(tokens)
        ELSE IF tfidf = "ok" /\ max_keywords > 0 /\ Len(TfidfTerms(cleaned_text)) > 0
             THEN Ok(TfidfKeywords(cleaned_text, max_keywords))
        ELSE Ok(extract_keywords_fallback(cleaned_text, max_keywords))

Sentiments == {"positive", "negative", "neutral"}

\* analyze_sentiment_fallback with the thresholds counted as beyond them
analyze_sentiment_fallback_inclusive(t, blob) ==
    IF blob.raises THEN Ok("neutral")
    ELSE IF blob.polarity >= 10 THEN Ok("positive")
    ELSE IF blob.polarity <= -10 THEN Ok("negative")
    ELSE Ok("neutral")

\* NLPProcessor.analyze_sentiment_fallback; blob is what TextBlob does with
\* the text: it raises, or it gives a polarity (in hundredths)
analyze_sentiment_fallback(t, blob) ==
    IF blob.raises THEN Ok("neutral")
    ELSE IF blob.polarity > 10 THEN Ok("positive")
    ELSE IF blob.polarity < -10 THEN Ok("negative")
    ELSE Ok("neutral")

\* the sentiment_mapping literal with its .get(label, 'neutral') default
sentiment_mapping(label) ==
    CASE label = "positive" -> "positive"
      [] label = "negative" -> "negative"
      [] label = "neutral"  -> "neutral"
      [] label = "label_2"  -> "positive"
      [] label = "label_1"  -> "neutral"
      [] label = "label_0"  -> "negative"
      [] OTHER              -> "neutral"

\* the confidence threshold 0.6 of analyze_sentiment_cuda, in hundredths
ConfidenceThreshold == 60

\* the input length limit of analyze_sentiment_cuda
SentimentMaxLength == 500

\* analyze_sentiment_cuda without the low-confidence rule
analyze_sentiment_cuda_no_threshold(t, analyzer_loaded, primary, blob) ==
    IF ~analyzer_loaded THEN analyze_sentiment_fallback(t, blob)
    ELSE IF primary.raises
         THEN analyze_sentiment_fallback(Prefix(t, 500), blob)
         ELSE Ok(sentiment_mapping(Lower(primary.label)))

\* NLPProcessor.analyze_sentiment_cuda; primary is what the transformer
\* pipeline does with the (truncated) text: raises, or a label and a score
analyze_sentiment_cuda(t, analyzer_loaded, primary, blob) ==
    IF ~analyzer_loaded THEN analyze_sentiment_fallback(t, blob)
    ELSE LET truncated == Prefix(t, SentimentMaxLength)
         IN  IF primary.raises THEN analyze_sentiment_fallback(truncated, blob)
             ELSE LET label            == Lower(primary.label)
                      mapped_sentiment == sentiment_mapping(label)
                  IN  IF primary.score < ConfidenceThreshold
                      THEN Ok("neutral")
                      ELSE Ok(mapped_sentiment)

\* the texts analyze_sentiment_cuda hands to analyze_sentiment_fallback: the
\* argument of the call in the branch for a missing analyzer, and the value
\* the name text is bound to when the except branch makes its call (the
\* name is rebound to the truncated text before the pipeline is called)
sentiment_fallback_calls(t, analyzer_loaded, primary) ==
    IF ~analyzer_loaded THEN <<t>>
    ELSE IF primary.raises THEN <<Prefix(t, SentimentMaxLength)>>
    ELSE <<>>

\* NLPProcessor.process_text: one try around both calls, the except branch
\* recomputes both with the fallbacks, unguarded
process_text(t, analyzer_loaded, x) ==
    LET keywords  == extract_keywords(t, 10, x.tfidf)
        sentiment == analyze_sentiment_cuda(t, analyzer_loaded, x.primary, x.blob)
    IN  IF keywords.ok /\ sentiment.ok
        THEN Ok([keywords |-> keywords.val, sentiment |-> sentiment.val])
        ELSE LET fb == analyze_sentiment_fallback(t, x.blob)
             IN  IF fb.ok
                 THEN Ok([keywords  |-> extract_keywords_fallback(t, 10),
                          sentiment |-> fb.val])
                 ELSE Raised

----------------------------------------------------------------------------
(* services/summarizer.py                                                  *)

\* _fallback_summary that returns two sentences however many there are
fallback_summary_first_two(t) ==
    LET parts     == SplitOn(t, ".")
        kept      == SelectSeq(parts, LAMBDA p : Strip(p) # "")
        sentences == [i \in 1..Len(kept) |-> Strip(kept[i])]
    IN  IF Len(sentences) <= 2 THEN t
        ELSE Join(SubSeq(sentences, 1, 2), ". ") \o "."

\* Summarizer._fallback_summary
fallback_summary(t) ==
    LET parts     == SplitOn(t, ".")
        kept      == SelectSeq(parts, LAMBDA p : Strip(p) # "")
        sentences == [i \in 1..Len(kept) |-> Strip(kept[i])]
    IN  IF Len(sentences) <= 2 THEN t
        ELSE LET summary_sentences ==
                     IF Len(sentences) > 5 THEN SubSeq(sentences, 1, 3)
                     ELSE SubSeq(sentences, 1, 2)
             IN  Join(summary_sentences, ". ") \o "."

\* the loop of _split_text, losing the sentence that does not fit the
\* current chunk
RECURSIVE SplitLoopDropping(_, _, _, _, _)
SplitLoopDropping(sentences, i, current_chunk, chunks, max_chunk_size) ==
    LET flushed == IF current_chunk # ""
                   THEN Append(chunks, Strip(current_chunk))
                   ELSE chunks
    IN  IF i > Len(sentences) THEN flushed
        ELSE IF Len(current_chunk) + Len(sentences[i]) + 2 <= max_chunk_size
             THEN SplitLoopDropping(sentences, i + 1,
                                    current_chunk \o sentences[i] \o ". ",
                                    chunks, max_chunk_size)
             ELSE SplitLoopDropping(sentences, i + 1, "", flushed, max_chunk_size)

\* the loop of Summarizer._split_text from sentence i on
RECURSIVE SplitLoop(_, _, _, _, _)
SplitLoop(sentences, i, current_chunk, chunks, max_chunk_size) ==
    LET flushed == IF current_chunk # ""
                   THEN Append(chunks, Strip(current_chunk))
                   ELSE chunks
    IN  IF i > Len(sentences) THEN flushed
        ELSE IF Len(current_chunk) + Len(sentences[i]) + 2 <= max_chunk_size
             THEN SplitLoop(sentences, i + 1, current_chunk \o sentences[i] \o ". ",
                            chunks, max_chunk_size)
             ELSE SplitLoop(sentences, i + 1, sentences[i] \o ". ",
                            flushed, max_chunk_size)

\* Summarizer._split_text
split_text(t, max_chunk_size) ==
    IF Len(t) <= max_chunk_size THEN <<t>>
    ELSE SplitLoop(SplitOn(t, ". "), 1, "", <<>>, max_chunk_size)

\* the BART pipeline called with do_sample=False: a deterministic, non-empty
\* function of its input and of the length bounds it is given
BartSummary(x, max_length, min_length) ==
    "summary<=" \o ToString(max_length) \o ">=" \o ToString(min_length)
        \o "(" \o (IF Len(split(x)) > 0 THEN split(x)[1] ELSE "") \o ")"

\* the thresholds of Summarizer.summarize
MinWords == 15
ShortWords == 50
MediumWords == 100
max_input_length == 800
DefaultMaxLength == 150
DefaultMinLength == 30

\* the parameter adjustment with min_length capped by the caller's
\* max_length instead of the adjusted one
adjusted_lengths_old_max(word_count, max_length, min_length) ==
    IF word_count < ShortWords
    THEN [max_length |-> Max2(word_count \div 2, 15),
          min_length |-> Max2(word_count \div 4, 5)]
    ELSE IF word_count < MediumWords
         THEN [max_length |-> Min2(max_length, Max2(word_count \div 2, 20)),
               min_length |-> Min2(min_length, Max2(max_length \div 3, 10))]
         ELSE [max_length |-> max_length, min_length |-> min_length]

\* the parameter adjustment with min_length left as the caller gave it
\* from 50 words on
adjusted_lengths_min_kept(word_count, max_length, min_length) ==
    IF word_count < ShortWords
    THEN [max_length |-> Max2(word_count \div 2, 15),
          min_length |-> Max2(word_count \div 4, 5)]
    ELSE IF word_count < MediumWords
         THEN [max_length |-> Min2(max_length, Max2(word_count \div 2, 20)),
               min_length |-> min_length]
         ELSE [max_length |-> max_length, min_length |-> min_length]

\* the parameter adjustment of Summarizer.summarize
adjusted_lengths(word_count, max_length, min_length) ==
    IF word_count < ShortWords
    THEN [max_length |-> Max2(word_count \div 2, 15),
          min_length |-> Max2(word_count \div 4, 5)]
    ELSE IF word_count < MediumWords
         THEN LET ml == Min2(max_length, Max2(word_count \div 2, 20))
              IN  [max_length |-> ml,
                   min_length |-> Min2(min_length, Max2(ml \div 3, 10))]
         ELSE [max_length |-> max_length, min_length |-> min_length]

\* Summarizer.__init__ with _initialize_model, _initialize_cpu_then_gpu and
\* _initialize_cpu_model; cuda says whether the device is a GPU, loading
\* what each strategy does when it is tried.  summarizer tells how the
\* active pipeline was built: from the model name, from the loaded model,
\* or not at all (None); model and tokenizer tell whether the attribute is
\* set.  load_manually is one of the two sequences that build the pipeline
\* from a loaded model: fail_at names the step that raises (the tokenizer,
\* the model, moving the model to the device, the pipeline) or is "ok", and
\* the attributes assigned before that step keep their values.
\* _test_model catches what the test call raises.
Summarizer_initialize_model(cuda, loading) ==
    LET unset  == [summarizer |-> "none", model |-> FALSE, tokenizer |-> FALSE]
        load_manually(s, fail_at) ==
            [summarizer |-> IF fail_at = "ok" THEN "from_model" ELSE s.summarizer,
             tokenizer  |-> s.tokenizer \/ fail_at # "tokenizer",
             model      |-> s.model \/ fail_at \notin {"tokenizer", "model"}]
        cpu(s) == [s EXCEPT !.summarizer =
                       IF loading.cpu_pipeline THEN "by_name" ELSE "none"]
    IN  IF ~cuda THEN cpu(unset)
        ELSE IF loading.cuda_pipeline THEN [unset EXCEPT !.summarizer = "by_name"]
        ELSE IF loading.manual = "ok" THEN load_manually(unset, "ok")
        ELSE IF loading.cpu_then_gpu = "ok"
             THEN load_manually(load_manually(unset, loading.manual), "ok")
        ELSE cpu(load_manually(load_manually(unset, loading.manual),
                               loading.cpu_then_gpu))

\* Summarizer.get_model_info, the entries that depend on the loading
get_model_info(s) ==
    [model_loaded   |-> s.model,
     pipeline_ready |-> s.summarizer # "none",
     loading_method |-> IF ~s.model THEN "pipeline" ELSE "manual_loading"]

\* summarize without its try/except: an exception of the model propagates
summarize_unguarded(t, max_length, min_length, pipeline_ready, fails) ==
    IF ~pipeline_ready THEN Ok(fallback_summary(t))
    ELSE IF Len(split(t)) < 15 THEN Ok(t)
    ELSE IF fails # {} THEN Raised
    ELSE Ok(BartSummary(t, max_length, min_length))

\* the number of calls of the model that summarize makes on t
ModelCalls(t) ==
    IF Len(split(t)) < MinWords THEN 0
    ELSE IF Len(t) > max_input_length THEN Len(split_text(t, max_input_length))
    ELSE 1

\* summarize in which a chunk on which the model raises aborts the chunked
\* summarization: the whole text gets the fallback
summarize_aborting(t, max_length, min_length, pipeline_ready, fails) ==
    IF ~pipeline_ready THEN Ok(fallback_summary(t))
    ELSE LET word_count == Len(split(t))
         IN  IF word_count < MinWords THEN Ok(t)
             ELSE LET b == adjusted_lengths(word_count, max_length, min_length)
                  IN  IF fails # {} THEN Ok(fallback_summary(t))
                      ELSE IF Len(t) > max_input_length
                      THEN LET chunks == split_text(t, max_input_length)
                           IN  Ok(Join([i \in 1..Len(chunks) |->
                                          BartSummary(chunks[i], b.max_length,
                                                      b.min_length)], " "))
                      ELSE Ok(BartSummary(t, b.max_length, b.min_length))

\* Summarizer.summarize; fails is the set of calls of the model that raise
\* (call i is the one on chunk i, call 1 the only one of a short text)
summarize(t, max_length, min_length, pipeline_ready, fails) ==
    IF ~pipeline_ready THEN Ok(fallback_summary(t))
    ELSE LET word_count == Len(split(t))
         IN  IF word_count < MinWords THEN Ok(t)
             ELSE LET b == adjusted_lengths(word_count, max_length, min_length)
                  IN  IF Len(t) > max_input_length
                      THEN LET chunks    == split_text(t, max_input_length)
                               summaries ==
                                   [i \in 1..Len(chunks) |->
                                       IF i \in fails
                                       THEN fallback_summary(chunks[i])
                                       ELSE BartSummary(chunks[i], b.max_length,
                                                        b.min_length)]
                           IN  Ok(Join(summaries, " "))
                      ELSE IF 1 \in fails THEN Ok(fallback_summary(t))
                      ELSE Ok(BartSummary(t, b.max_length, b.min_length))

----------------------------------------------------------------------------
(* app.py                                                                  *)

\* text[:100] + "..." if len(text) > 100 else text
truncated_summary(t) == IF Len(t) > 100 THEN SubSeq(t, 1, 100) \o "..." ELSE t

\* the values of the except branch of process_text_with_ai
fallback_values(t) ==
    [summary    |-> truncated_summary(t),
     keywords   |-> <<>>,
     sentiment  |-> "neutral",
     statistics |-> [word_count |-> Len(split(t))]]

\* process_text_with_ai.  e tells which services exist: services_ok (the
\* initialization block of app.py succeeded, so summarizer and nlp_processor
\* are not None), pipeline_ready (summarizer.summarizer), analyzer_loaded
\* (nlp_processor.sentiment_analyzer); x holds what the external models do.
process_text_with_ai(t, e, x) ==
    LET summary == IF e.services_ok /\ e.pipeline_ready
                   THEN summarize(t, DefaultMaxLength, DefaultMinLength,
                                  e.pipeline_ready, x.fails)
                   ELSE Ok(truncated_summary(t))
        nlp     == IF e.services_ok
                   THEN process_text(t, e.analyzer_loaded, x)
                   ELSE Ok([keywords |-> <<>>, sentiment |-> "neutral"])
        statistics == IF e.services_ok
                      THEN get_text_statistics(t)
                      ELSE [word_count |-> Len(split(t))]
    IN  IF summary.ok /\ nlp.ok
        THEN Ok([summary    |-> summary.val,
                 keywords   |-> nlp.val.keywords,
                 sentiment  |-> nlp.val.sentiment,
                 statistics |-> statistics])
        ELSE Ok(fallback_values(t))

----------------------------------------------------------------------------
(* Python dict values with str keys are functions on a set of strings.     *)

EmptyDict == <<>>

\* d.get(key, default)
Get(d, key, default) == IF key \in DOMAIN d THEN d[key] ELSE default

\* d[key] = value
Put(d, key, value) == (key :> value) @@ d

----------------------------------------------------------------------------
(* JSON values as request.get_json() and json.loads return them: null, a   *)
(* str, an int (its digits in s), a list of str, or a dict whose values    *)
(* are JSON values.  Every value has the same four fields.                 *)

NoFields == [k \in {} |-> ""]

JsonValue(t, s, items, fields) == [t |-> t, s |-> s, items |-> items, fields |-> fields]

Null == JsonValue("null", "", <<>>, NoFields)
Str(x) == JsonValue("str", x, <<>>, NoFields)
Num(digits) == JsonValue("int", digits, <<>>, NoFields)
List(xs) == JsonValue("list", "", xs, NoFields)
Dict(f) == JsonValue("dict", "", <<>>, f)

\* bool(j)
Truthy(j) ==
    CASE j.t = "null" -> FALSE
      [] j.t = "str"  -> j.s # ""
      [] j.t = "int"  -> j.s # "0"
      [] j.t = "list" -> j.items # <<>>
      [] OTHER        -> DOMAIN j.fields # {}

\* j has a len()
Sized(j) == j.t \in {"str", "list", "dict"}

\* d.get(key, default) of a dict value
DictGet(d, key, default) == Get(d.fields, key, default)

\* the order in which the clients insert the keys into their objects
KeyOrder == <<"title", "content", "category", "ai_analysis", "image",
              "analysis", "summary", "sentiment", "keywords">>

Quote(x) == "\"" \o x \o "\""

\* json.dumps(j)
RECURSIVE dumps(_)
dumps(j) ==
    CASE j.t = "null" -> "null"
      [] j.t = "str"  -> Quote(j.s)
      [] j.t = "int"  -> j.s
      [] j.t = "list" ->
            "[" \o Join([i \in 1..Len(j.items) |-> Quote(j.items[i])], ", ") \o "]"
      [] OTHER ->
            LET ks == SelectSeq(KeyOrder, LAMBDA k : k \in DOMAIN j.fields)
            IN  "{" \o Join([i \in 1..Len(ks) |->
                                Quote(ks[i]) \o ": " \o dumps(j.fields[ks[i]])], ", ")
                    \o "}"

\* the analyses that clients attach to a note
FullAnalysis ==
    ("summary" :> Str("s1")) @@ ("sentiment" :> Str("positive"))
        @@ ("keywords" :> List(<<"a", "b">>))
PartialAnalysis == ("summary" :> Str("s1"))
NumberKeywords == ("summary" :> Str("s1")) @@ ("keywords" :> Num("5"))
ListSummary == ("summary" :> List(<<"a">>))

\* the JSON values whose texts occur in the model; json.loads of any other
\* text of the model raises JSONDecodeError
JsonUniverse ==
    {Null, Num("5"), List(<<"a">>), List(<<"a", "b">>),
     Dict(FullAnalysis), Dict(PartialAnalysis), Dict(NoFields),
     Dict(NumberKeywords), Dict(ListSummary),
     Dict("analysis" :> Dict(FullAnalysis)), Dict("analysis" :> Str("x"))}

LoadsTable ==
    [x \in {dumps(j) : j \in JsonUniverse} |->
        CHOOSE j \in JsonUniverse : dumps(j) = x]

\* json.loads(x) of a str x
loads(x) == IF x \in DOMAIN LoadsTable THEN Ok(LoadsTable[x]) ELSE Raised

----------------------------------------------------------------------------
(* The values a media adapter is handed, and base64.  A value has a Python *)
(* type, a text (the str itself, or "") and bytes (the bytes themselves,   *)
(* the content a file handle reads, the content of the file a path names). *)

\* the types are str, bytes, file (an open binary file handle whose content
\* is b), path (an os.PathLike that names an existing file whose content is
\* b) and NoneType
Py(type, s, b) == [type |-> type, s |-> s, b |-> b]

\* the value of c in the base64 alphabet, 64 for a character outside it
B64Index(c) ==
    LET alphabet == UPPER \o LOWER \o "0123456789+/"
    IN  IF \E i \in 1..64 : Ch(alphabet, i) = c
        THEN (CHOOSE i \in 1..64 : Ch(alphabet, i) = c) - 1
        ELSE 64

\* binascii.a2b_base64 as base64.b64decode calls it (validate=False):
\* characters outside the alphabet are skipped, a complete pad sequence ends
\* the input, and an incomplete last quad raises binascii.Error
RECURSIVE a2b_base64(_, _, _, _, _, _)
a2b_base64(s, i, quad_pos, leftchar, pads, out) ==
    IF i > Len(s) THEN (IF quad_pos # 0 THEN Raised ELSE Ok(out))
    ELSE LET this_ch == B64Index(Ch(s, i))
         IN  IF Ch(s, i) = "="
             THEN IF quad_pos >= 2 /\ quad_pos + pads + 1 >= 4 THEN Ok(out)
                  ELSE a2b_base64(s, i + 1, quad_pos, leftchar,
                                  IF quad_pos >= 2 THEN pads + 1 ELSE pads, out)
             ELSE IF this_ch = 64
             THEN a2b_base64(s, i + 1, quad_pos, leftchar, pads, out)
             ELSE CASE quad_pos = 0 ->
                         a2b_base64(s, i + 1, 1, this_ch, 0, out)
                    [] quad_pos = 1 ->
                         a2b_base64(s, i + 1, 2, this_ch % 16, 0,
                                    Append(out, leftchar * 4 + this_ch \div 16))
                    [] quad_pos = 2 ->
                         a2b_base64(s, i + 1, 3, this_ch % 4, 0,
                                    Append(out, leftchar * 16 + this_ch \div 4))
                    [] OTHER ->
                         a2b_base64(s, i + 1, 0, 0, 0,
                                    Append(out, leftchar * 64 + this_ch))

\* base64.b64decode(s)
b64decode(s) == a2b_base64(s, 1, 0, 0, 0, <<>>)

\* s.split(',')[1] when s starts with the data-URL prefix, else s; the index
\* raises IndexError when s has no comma
StripDataUrl(s, prefix) ==
    IF ~(Len(s) >= Len(prefix) /\ SubSeq(s, 1, Len(prefix)) = prefix) THEN Ok(s)
    ELSE IF Len(SplitOn(s, ",")) < 2 THEN Raised
    ELSE Ok(SplitOn(s, ",")[2])

\* the payload of a str input decoded to bytes
DecodeStr(s, prefix) ==
    IF ~StripDataUrl(s, prefix).ok THEN Raised
    ELSE b64decode(StripDataUrl(s, prefix).val)

----------------------------------------------------------------------------
(* services/image_to_text.py                                               *)

\* ImageToText._generate_caption; out is what BLIP does: it raises, or it
\* decodes to a caption
generate_caption(blip_loaded, out) ==
    IF ~blip_loaded THEN "Caption model not available"
    ELSE IF out.raises THEN "Caption error: " \o out.text
    ELSE out.text

\* ImageToText._extract_ocr_text; out is what Tesseract does
extract_ocr_text(ocr_available, out) ==
    IF ~ocr_available THEN "OCR not available"
    ELSE IF out.raises THEN "OCR error: " \o out.text
    ELSE IF Strip(out.text) # "" THEN Strip(out.text)
    ELSE "No text detected"

\* ImageToText._extract_document_text; out is what TrOCR does
extract_document_text(doc_loaded, out) ==
    IF ~doc_loaded THEN "Document processor not available"
    ELSE IF out.raises THEN "Document extraction error: " \o out.text
    ELSE IF out.text # "" THEN out.text
    ELSE "No document text detected"

\* _select_best_text with OCR and caption tried in the other order
select_best_text_caption_first(r) ==
    LET doc_text == Get(r, "document_text", "")
        ocr_text == Get(r, "ocr_text", "")
        caption  == Get(r, "caption", "")
    IN  IF doc_text # "" /\ Len(doc_text) > 10 /\ ~Contains(Lower(doc_text), "error")
        THEN doc_text
        ELSE IF caption # "" /\ ~Contains(Lower(caption), "error")
        THEN caption
        ELSE IF ocr_text # "" /\ Len(ocr_text) > 5 /\ ~Contains(Lower(ocr_text), "error")
        THEN ocr_text
        ELSE "No text could be extracted from the image"

\* ImageToText._select_best_text
select_best_text(r) ==
    LET doc_text == Get(r, "document_text", "")
        ocr_text == Get(r, "ocr_text", "")
        caption  == Get(r, "caption", "")
    IN  IF doc_text # "" /\ Len(doc_text) > 10 /\ ~Contains(Lower(doc_text), "error")
        THEN doc_text
        ELSE IF ocr_text # "" /\ Len(ocr_text) > 5 /\ ~Contains(Lower(ocr_text), "error")
        THEN ocr_text
        ELSE IF caption # "" /\ ~Contains(Lower(caption), "error")
        THEN caption
        ELSE "No text could be extracted from the image"

\* the content of the one file that PIL can open (PNG magic), and its base64
PngBytes == <<137, 80, 78, 71>>
PngBase64 == "iVBORw=="

\* Image.open on bytes: the image, or UnidentifiedImageError
Image_open(b) == IF b = PngBytes THEN Ok("image A") ELSE Raised

\* ImageToText._prepare_image: Ok(image), or Raised for the None it returns
prepare_image(image_data) ==
    IF image_data.type = "str"
    THEN IF ~DecodeStr(image_data.s, "data:image").ok THEN Raised
         ELSE Image_open(DecodeStr(image_data.s, "data:image").val)
    ELSE IF image_data.type = "bytes" THEN Image_open(image_data.b)
    ELSE IF image_data.type = "file" THEN Image_open(image_data.b)
    ELSE Raised

\* ImageToText.process_image; decodable says whether _prepare_image returns
\* an image, svc which sub-models are loaded, outs what each of them does
process_image(decodable, mode, svc, outs) ==
    IF ~decodable THEN Put(EmptyDict, "error", "Invalid image data")
    ELSE LET r1 == IF mode \in {"auto", "caption"}
                   THEN Put(EmptyDict, "caption",
                            generate_caption(svc.blip_loaded, outs.caption))
                   ELSE EmptyDict
             r2 == IF mode \in {"auto", "ocr"}
                   THEN Put(r1, "ocr_text",
                            extract_ocr_text(svc.ocr_available, outs.ocr))
                   ELSE r1
             r3 == IF mode \in {"auto", "document"}
                   THEN Put(r2, "document_text",
                            extract_document_text(svc.doc_loaded, outs.document))
                   ELSE r2
         IN  IF mode = "auto" THEN Put(r3, "best_text", select_best_text(r3))
             ELSE r3

----------------------------------------------------------------------------
(* services/speech_to_text.py                                              *)

\* SpeechToText._initialize_models and _initialize_cpu_models; cuda says
\* whether the device is a GPU, loaded which loading strategy succeeds when
\* it is tried.  The result is how Whisper is left: as a pipeline (the
\* attribute whisper_pipeline is set and not None), as a manually loaded
\* model and processor (no attribute whisper_pipeline), or not at all.
SpeechToText_initialize_models(cuda, loaded) ==
    IF cuda
    THEN IF loaded.cuda_pipeline THEN "pipeline"
         ELSE IF loaded.manual THEN "manual"
         ELSE IF loaded.cpu_pipeline THEN "pipeline"
         ELSE "none"
    ELSE IF loaded.cpu_pipeline THEN "pipeline"
    ELSE "none"

\* SpeechToText._transcribe_with_whisper, called when whisper_pipeline exists
transcribe_with_whisper(out) ==
    IF out.raises THEN "Whisper error: " \o out.text
    ELSE Strip(out.text)

\* SpeechToText._transcribe_with_speech_recognition; out.kind tells what the
\* recognizers do: Google answers, Google cannot understand the audio, Google
\* is unreachable and Sphinx answers or fails, or reading the audio raises
transcribe_with_speech_recognition(out) ==
    CASE out.kind = "google"  -> out.text
      [] out.kind = "unknown" -> "Could not understand audio"
      [] out.kind = "sphinx"  -> out.text
      [] out.kind = "failed"  -> "Speech recognition failed"
      [] OTHER                -> "SR error: " \o out.text

\* _select_best_transcription without the length test on the Whisper text
select_best_transcription_any_length(r) ==
    LET whisper_text == Get(r, "whisper", "")
        sr_text      == Get(r, "speech_recognition", "")
    IN  IF whisper_text # "" /\ ~Contains(Lower(whisper_text), "error")
        THEN whisper_text
        ELSE IF sr_text # "" /\ ~Contains(Lower(sr_text), "error") /\ Len(sr_text) > 0
        THEN sr_text
        ELSE "Could not transcribe audio"

\* SpeechToText._select_best_transcription
select_best_transcription(r) ==
    LET whisper_text == Get(r, "whisper", "")
        sr_text      == Get(r, "speech_recognition", "")
    IN  IF /\ whisper_text # ""
           /\ ~Contains(Lower(whisper_text), "error")
           /\ Len(whisper_text) > 5
        THEN whisper_text
        ELSE IF sr_text # "" /\ ~Contains(Lower(sr_text), "error") /\ Len(sr_text) > 0
        THEN sr_text
        ELSE "Could not transcribe audio"

\* the content of the one file that librosa can load (RIFF), and its base64
WavBytes == <<82, 73, 70, 70>>
WavBase64 == "UklGRg=="

\* librosa.load on a file with content b: the samples, or an exception
librosa_load(b) == IF b = WavBytes THEN Ok("audio A") ELSE Raised

\* SpeechToText._prepare_audio: Ok(samples), or Raised for the (None, None)
\* it returns.  A value that is neither str nor bytes goes to
\* os.path.isfile, which raises TypeError for a file handle and for None.
prepare_audio(audio_data) ==
    IF audio_data.type = "str"
    THEN IF ~DecodeStr(audio_data.s, "data:audio").ok THEN Raised
         ELSE librosa_load(DecodeStr(audio_data.s, "data:audio").val)
    ELSE IF audio_data.type = "bytes" THEN librosa_load(audio_data.b)
    ELSE IF audio_data.type = "path" THEN librosa_load(audio_data.b)
    ELSE Raised

\* what _transcribe_with_speech_recognition(audio_data) does: temp_file.write
\* raises TypeError for a value that is neither a str nor bytes
sr_outcome(audio_data, out) ==
    IF audio_data.type \in {"str", "bytes"} THEN out
    ELSE [kind |-> "raises", text |-> "a bytes-like object is required"]

\* transcribe_audio without the early return for audio that cannot be
\* prepared
transcribe_audio_unchecked(decodable, whisper, outs) ==
    LET r1 == IF whisper = "pipeline"
              THEN Put(EmptyDict, "whisper", transcribe_with_whisper(outs.whisper))
              ELSE EmptyDict
        r2 == Put(r1, "speech_recognition",
                  transcribe_with_speech_recognition(outs.sr))
    IN  Put(r2, "transcription", select_best_transcription(r2))

\* SpeechToText.transcribe_audio; decodable says whether _prepare_audio
\* returns samples
transcribe_audio(decodable, whisper, outs) ==
    IF ~decodable THEN Put(EmptyDict, "error", "Invalid audio data")
    ELSE LET r1 == IF whisper = "pipeline"
                   THEN Put(EmptyDict, "whisper", transcribe_with_whisper(outs.whisper))
                   ELSE EmptyDict
             r2 == Put(r1, "speech_recognition",
                       transcribe_with_speech_recognition(outs.sr))
         IN  Put(r2, "transcription", select_best_transcription(r2))

----------------------------------------------------------------------------
(* models/note.py and routes/api.py: the notes table and the handlers that *)
(* write it.  A row has the columns these handlers read or write.          *)

\* what sqlite3 stores in a TEXT column when the value j is bound to it
SqlText(j) == IF j.t = "int" THEN Str(j.s) ELSE j

\* sqlite3 binds None, int and str parameters; it raises on a list or dict
Bindable(j) == j.t \in {"null", "str", "int"}

\* Note.set_keywords
set_keywords(keywords_list) ==
    IF keywords_list # <<>> THEN Str(dumps(List(keywords_list))) ELSE Null

\* Note.get_full_text
get_full_text(row) ==
    row.content.s
        \o (IF Truthy(row.image_text)
            THEN "\n\n[Image Text]: " \o row.image_text.s ELSE "")
        \o (IF Truthy(row.audio_text)
            THEN "\n\n[Audio Text]: " \o row.audio_text.s ELSE "")

NoNote == [id |-> 0]

Response(status, note) == [status |-> status, note |-> note]

\* the note a handler returns for the row of note_id, as update_note builds
\* it from the row it reads back
NoteOf(note_id, row) ==
    [id |-> note_id, title |-> row.title, content |-> row.content,
     category |-> row.category, updated_at |-> row.updated_at,
     ai_processed |-> row.ai_processed, summary |-> row.summary,
     sentiment |-> row.sentiment,
     keywords |-> IF Truthy(row.keywords) THEN loads(row.keywords.s).val
                  ELSE List(<<>>)]

\* the block of create_note and update_note that reads data['ai_analysis'].
\* parsed: the try block ran to its end; raised: an exception left the block
\* uncaught (the except clause names JSONDecodeError and AttributeError)
ReadAiAnalysis(data) ==
    LET ai_analysis_str == DictGet(data, "ai_analysis", Null)
        nothing(parsed, raised) ==
            [parsed |-> parsed, raised |-> raised, summary |-> Null,
             sentiment |-> Null, keywords_json |-> Null]
    IN  IF ~Truthy(ai_analysis_str) THEN nothing(FALSE, FALSE)
        ELSE IF ai_analysis_str.t # "str" THEN nothing(FALSE, TRUE)
        ELSE LET decoded == loads(ai_analysis_str.s)
             IN  IF ~decoded.ok THEN nothing(FALSE, FALSE)
                 ELSE IF decoded.val.t # "dict" THEN nothing(FALSE, FALSE)
                 ELSE LET ai_analysis   == decoded.val
                          analysis_data == DictGet(ai_analysis, "analysis", ai_analysis)
                      IN  IF analysis_data.t # "dict" THEN nothing(FALSE, FALSE)
                          ELSE LET keywords == DictGet(analysis_data, "keywords", List(<<>>))
                               IN  [parsed   |-> TRUE,
                                    raised   |-> Truthy(keywords) /\ ~Sized(keywords),
                                    summary  |-> DictGet(analysis_data, "summary", Null),
                                    sentiment |-> DictGet(analysis_data, "sentiment", Null),
                                    keywords_json |->
                                        IF Truthy(keywords) THEN Str(dumps(keywords))
                                        ELSE Null]

\* cursor.lastrowid of an INSERT into a table whose id is the rowid
LastRowId(db) ==
    IF DOMAIN db = {} THEN 1
    ELSE 1 + CHOOSE n \in DOMAIN db : \A k \in DOMAIN db : k <= n

\* create_note; timestamp is CURRENT_TIMESTAMP
create_note(db, data, timestamp) ==
    IF \/ ~Truthy(data)
       \/ "title" \notin DOMAIN data.fields
       \/ "content" \notin DOMAIN data.fields
    THEN [db |-> db, response |-> Response(400, NoNote)]
    ELSE LET ai       == ReadAiAnalysis(data)
             title    == data.fields["title"]
             content  == data.fields["content"]
             category == DictGet(data, "category", Null)
             ai_processed == Truthy(DictGet(data, "ai_analysis", Null))
             row == [title |-> SqlText(title), content |-> SqlText(content),
                     category |-> SqlText(category), ai_processed |-> ai_processed,
                     summary |-> SqlText(ai.summary),
                     sentiment |-> SqlText(ai.sentiment),
                     keywords |-> ai.keywords_json, updated_at |-> timestamp,
                     has_image |-> FALSE, image_text |-> Null, audio_text |-> Null]
             note_id == LastRowId(db)
         IN  IF \/ ai.raised
                \/ \E j \in {title, content, category, ai.summary, ai.sentiment} :
                       ~Bindable(j)
                \/ title.t = "null" \/ content.t = "null"
             THEN [db |-> db, response |-> Response(500, NoNote)]
             ELSE [db |-> (note_id :> row) @@ db,
                   response |-> Response(201,
                       [id |-> note_id, title |-> title, content |-> content,
                        category |-> category, updated_at |-> timestamp,
                        ai_processed |-> ai_processed, summary |-> ai.summary,
                        sentiment |-> ai.sentiment,
                        keywords |-> IF Truthy(ai.keywords_json)
                                     THEN loads(ai.keywords_json.s).val
                                     ELSE List(<<>>)])]

\* update_note that keeps the stored value of an enrichment field for which
\* the request brings none
update_note_merging(db, note_id, data, timestamp) ==
    IF ~Truthy(data) THEN [db |-> db, response |-> Response(400, NoNote)]
    ELSE LET ai == ReadAiAnalysis(data)
             keep(new, old) == IF new.t = "null" THEN old ELSE new
         IN  IF ai.raised THEN [db |-> db, response |-> Response(500, NoNote)]
             ELSE IF note_id \notin DOMAIN db
             THEN [db |-> db, response |-> Response(404, NoNote)]
             ELSE LET row == [db[note_id] EXCEPT
                                 !.title = SqlText(DictGet(data, "title", Str(""))),
                                 !.content = SqlText(DictGet(data, "content", Str(""))),
                                 !.category = SqlText(DictGet(data, "category", Str(""))),
                                 !.ai_processed = ai.parsed \/ @,
                                 !.summary = keep(SqlText(ai.summary), @),
                                 !.sentiment = keep(SqlText(ai.sentiment), @),
                                 !.keywords = keep(ai.keywords_json, @),
                                 !.updated_at = timestamp]
                  IN  [db |-> [db EXCEPT ![note_id] = row],
                       response |-> Response(200, NoteOf(note_id, row))]

\* update_note; timestamp is CURRENT_TIMESTAMP
update_note(db, note_id, data, timestamp) ==
    IF ~Truthy(data) THEN [db |-> db, response |-> Response(400, NoNote)]
    ELSE LET ai       == ReadAiAnalysis(data)
             title    == DictGet(data, "title", Str(""))
             content  == DictGet(data, "content", Str(""))
             category == DictGet(data, "category", Str(""))
         IN  IF ai.raised THEN [db |-> db, response |-> Response(500, NoNote)]
             ELSE IF note_id \notin DOMAIN db
             THEN [db |-> db, response |-> Response(404, NoNote)]
             ELSE IF \/ \E j \in {title, content, category, ai.summary, ai.sentiment} :
                           ~Bindable(j)
                     \/ title.t = "null" \/ content.t = "null"
             THEN [db |-> db, response |-> Response(500, NoNote)]
             ELSE LET row == [db[note_id] EXCEPT
                                 !.title = SqlText(title),
                                 !.content = SqlText(content),
                                 !.category = SqlText(category),
                                 !.ai_processed = ai.parsed,
                                 !.summary = SqlText(ai.summary),
                                 !.sentiment = SqlText(ai.sentiment),
                                 !.keywords = ai.keywords_json,
                                 !.updated_at = timestamp]
                  IN  [db |-> [db EXCEPT ![note_id] = row],
                       response |-> Response(200, NoteOf(note_id, row))]

\* delete_note
delete_note(db, note_id) ==
    IF note_id \notin DOMAIN db
    THEN [db |-> db, response |-> Response(404, NoNote)]
    ELSE [db |-> [k \in DOMAIN db \ {note_id} |-> db[k]],
          response |-> Response(200, NoNote)]

\* the names bound in the module routes/api.py by its imports, its
\* assignments and its function definitions
ApiModuleNames ==
    {"Blueprint", "request", "jsonify", "Note", "db", "json", "base64", "io",
     "Image", "threading", "notes_bp", "get_ai_services", "test_route",
     "get_all_notes", "create_note", "get_note", "update_note", "delete_note",
     "add_image_to_note", "add_audio_to_note", "get_categories", "get_stats"}

\* the tail of add_image_to_note once the image is processed: the extracted
\* text is stored on the note, the full text is enriched again, and the row
\* is committed
enrich_row(row, enriched) ==
    [row EXCEPT !.summary = Str(enriched.summary),
                !.keywords = set_keywords(enriched.keywords),
                !.sentiment = Str(enriched.sentiment)]

commit_row(db, note_id, row) ==
    [db |-> [db EXCEPT ![note_id] = row],
     response |-> Response(200, NoteOf(note_id, row))]

enrich_and_commit(db, note_id, with_image, run) ==
    commit_row(db, note_id,
        enrich_row(with_image,
            process_text_with_ai(get_full_text(with_image), run.env, run.ext).val))

save_image_text(db, note_id, result, run) ==
    IF "error" \in DOMAIN result
    THEN [db |-> db, response |-> Response(500, NoNote)]
    ELSE IF "process_text_with_ai" \notin ApiModuleNames
    THEN [db |-> db, response |-> Response(500, NoNote)]
    ELSE enrich_and_commit(db, note_id,
             [db[note_id] EXCEPT
                 !.image_text = Str(Get(result, "best_text", "")),
                 !.has_image = TRUE],
             run)

\* add_image_to_note.  It evaluates the names image_to_text and
\* process_text_with_ai, which routes/api.py does not bind: the NameError is
\* caught by the handler's except clause, as is the NotFound that
\* get_or_404 raises.  run holds what the image service and the enrichment
\* would do: the service exists or is None, the image decodes or not, the
\* sub-models and the external models answer or raise.
add_image_to_note(db, note_id, data, run) ==
    IF note_id \notin DOMAIN db
    THEN [db |-> db, response |-> Response(500, NoNote)]
    ELSE IF ~Truthy(data) \/ "image" \notin DOMAIN data.fields
    THEN [db |-> db, response |-> Response(400, NoNote)]
    ELSE IF "image_to_text" \notin ApiModuleNames
    THEN [db |-> db, response |-> Response(500, NoNote)]
    ELSE IF ~run.service
    THEN [db |-> db, response |-> Response(500, NoNote)]
    ELSE save_image_text(db, note_id,
             process_image(run.decodable, "auto", run.svc, run.outs), run)

----------------------------------------------------------------------------
(* The enrichment pipeline as a state machine: a text arrives while the    *)
(* services are in some availability state, and process_text_with_ai runs  *)
(* on it against external models that answer or raise.                     *)

\* the text of n words alternating w1 and w2, a period after every p-th word
TextOf(w1, w2, n, p) ==
    Join([i \in 1..n |->
            (IF i % 2 = 1 THEN w1 ELSE w2)
                \o (IF p > 0 /\ i % p = 0 THEN "." ELSE "")], " ")

\* the input texts: built from a two-letter word, a capitalized stop word
\* and a long word with punctuation; a sentence ends after every second
\* word, or never
Texts ==
    {TextOf(w1, w2, n, p) :
        w1 \in {"go", "The", "Superb!"}, w2 \in {"go", "The", "Superb!"},
        n \in 0..MaxWords, p \in {0, 2}}

\* availability states of the services after the initialization of app.py
Envs ==
    {e \in [services_ok : BOOLEAN, pipeline_ready : BOOLEAN,
            analyzer_loaded : BOOLEAN] :
        ~e.services_ok => (~e.pipeline_ready /\ ~e.analyzer_loaded)}

\* what the sentiment pipeline returns: labels in the spellings models use,
\* one of them unknown to sentiment_mapping; scores around the threshold
NoPrimary == [raises |-> TRUE, label |-> "", score |-> 0]
PrimaryOutcomes ==
    {NoPrimary} \cup [raises : {FALSE}, label : {"POSITIVE", "LABEL_0", "mixed"},
                       score : {59, 60}]

\* what TextBlob returns: polarities beyond and at a threshold, or it raises
NoBlob == [raises |-> TRUE, polarity |-> 0]
BlobOutcomes == {NoBlob} \cup [raises : {FALSE}, polarity : {-11, 10, 11}]

\* the outcomes of the external calls that process_text_with_ai reaches on t
\* in e; a call that is not reached has the one outcome that stands for it
ExtChoices(t, e) ==
    LET calls == IF e.services_ok /\ e.pipeline_ready THEN ModelCalls(t) ELSE 0
        tf    == IF e.services_ok /\ Len(split(clean_text(t))) >= 5
                 THEN TfidfOutcomes ELSE {"ok"}
        pr    == IF e.services_ok /\ e.analyzer_loaded
                 THEN PrimaryOutcomes ELSE {NoPrimary}
        bl(p) == IF e.services_ok /\ p.raises THEN BlobOutcomes ELSE {NoBlob}
    IN  {x \in [fails : SUBSET (1..calls), tfidf : tf, primary : pr,
                blob : BlobOutcomes] : x.blob \in bl(x.primary)}

NoRecord == [ok |-> FALSE, val |-> <<>>]
NoMedia == [op |-> "none"]
EmptyTable == <<>>
NoRun == [service |-> FALSE]
NoRequest == [op |-> "none", id |-> 0, data |-> Null, run |-> NoRun]
NoResponse == Response(0, NoNote)
NoExt == [fails |-> {}, tfidf |-> "ok", primary |-> NoPrimary, blob |-> NoBlob]

InitEnrich ==
    /\ text \in Texts
    /\ env \in Envs
    /\ ext = NoExt
    /\ record = NoRecord
    /\ pc = "ready"
    /\ media = NoMedia
    /\ results = EmptyDict
    /\ notes = EmptyTable
    /\ request = NoRequest
    /\ response = NoResponse

\* one call of process_text_with_ai(text)
ProcessTextWithAI ==
    /\ pc = "ready"
    /\ \E x \in ExtChoices(text, env) :
          /\ ext' = x
          /\ record' = process_text_with_ai(text, env, x)
    /\ pc' = "done"
    /\ UNCHANGED <<text, env, media, results, notes, request, response>>

NextEnrich == ProcessTextWithAI

SpecEnrich == InitEnrich /\ [][NextEnrich]_vars

----------------------------------------------------------------------------
(* The media adapters as a state machine: the selection functions are      *)
(* called on candidate dicts, and the adapters on inputs that decode or    *)
(* not, with sub-models that are loaded or not and that answer or raise.   *)

\* stands for a key that the dict does not have
Absent == "<absent>"

\* the dict with the keys of f whose value is not Absent
DictOf(f) == [k \in {k \in DOMAIN f : f[k] # Absent} |-> f[k]]

\* candidate texts around the thresholds of _select_best_text (10 and 11
\* characters, 5 and 6), with 'error' in several spellings, and placeholders
ImageCandidates ==
    {DictOf(f) : f \in
        [document_text : {Absent, "", "0123456789", "invoice 042",
                          "Fatal ERROR here", "Document processor not available"},
         ocr_text : {Absent, "", "12345", "123456", "valid text here",
                     "OCR error: x"},
         caption : {Absent, "", "a caption", "Caption error: x"}]}

\* candidate transcriptions around the threshold of
\* _select_best_transcription (5 and 6 characters)
AudioCandidates ==
    {DictOf(f) : f \in
        [whisper : {Absent, "", "Hello", "Hello.", "Whisper error: x", "No ERRORS."},
         speech_recognition : {Absent, "", "ok", "SR error: x",
                               "Could not understand audio"}]}

\* what BLIP, Tesseract and TrOCR do during a call of process_image
ImageOuts ==
    [caption  : {[raises |-> TRUE, text |-> "CUDA out of memory"],
                 [raises |-> FALSE, text |-> "a caption"],
                 [raises |-> FALSE, text |-> ""]},
     ocr      : {[raises |-> TRUE, text |-> "tesseract failed"],
                 [raises |-> FALSE, text |-> " \n"],
                 [raises |-> FALSE, text |-> "12345\n"],
                 [raises |-> FALSE, text |-> " valid text here\n"]},
     document : {[raises |-> TRUE, text |-> "boom"],
                 [raises |-> FALSE, text |-> ""],
                 [raises |-> FALSE, text |-> "invoice 042"]}]

\* what Whisper and the recognizers do during a call of transcribe_audio
AudioOuts ==
    [whisper : {[raises |-> TRUE, text |-> "boom"],
                [raises |-> FALSE, text |-> ""],
                [raises |-> FALSE, text |-> " Hi. "],
                [raises |-> FALSE, text |-> " Hello world. "]},
     sr      : {[kind |-> "google", text |-> "spoken words"],
                [kind |-> "google", text |-> ""],
                [kind |-> "unknown", text |-> ""],
                [kind |-> "sphinx", text |-> "sphinx words"],
                [kind |-> "failed", text |-> ""],
                [kind |-> "raises", text |-> "bad wav"]}]

\* the forms in which a content reaches an adapter: base64, base64 behind a
\* data-URL header, raw bytes, an open file handle
InputForms(base64, header, bytes) ==
    {Py("str", base64, <<>>), Py("str", header \o base64, <<>>),
     Py("bytes", "", bytes), Py("file", "", bytes)}

\* what process_image is handed: an image in every form, and values that
\* decode to no image (bad padding, no base64 character at all, a header
\* without a comma, bytes of no image, a path object, None)
ImageInputs ==
    InputForms(PngBase64, "data:image/png;base64,", PngBytes)
        \cup {Py("str", "iVBORw", <<>>), Py("str", "!!!", <<>>),
              Py("str", "data:image", <<>>), Py("bytes", "", <<1, 2>>),
              Py("path", "", PngBytes), Py("NoneType", "", <<>>)}

\* what transcribe_audio is handed, likewise
AudioInputs ==
    InputForms(WavBase64, "data:audio/wav;base64,", WavBytes)
        \cup {Py("str", "UklGRg", <<>>), Py("str", "!!!", <<>>),
              Py("str", "data:audio", <<>>), Py("bytes", "", <<1, 2>>),
              Py("path", "", WavBytes), Py("NoneType", "", <<>>)}

InitMedia ==
    /\ text = ""
    /\ env = [services_ok |-> TRUE, pipeline_ready |-> TRUE, analyzer_loaded |-> TRUE]
    /\ ext = NoExt
    /\ record = NoRecord
    /\ pc = "ready"
    /\ media = NoMedia
    /\ results = EmptyDict
    /\ notes = EmptyTable
    /\ request = NoRequest
    /\ response = NoResponse

\* one call of _select_best_text(results); the selection is stored under
\* best_text as process_image stores it
SelectBestText ==
    /\ pc = "ready"
    /\ \E r \in ImageCandidates :
          /\ media' = [op |-> "select_best_text", arg |-> r]
          /\ results' = Put(r, "best_text", select_best_text(r))
    /\ pc' = "select_best_text"
    /\ UNCHANGED <<text, env, ext, record, notes, request, response>>

\* one call of process_image(image_data, mode)
ProcessImage ==
    /\ pc = "ready"
    /\ \E image_data \in ImageInputs,
          mode \in {"auto", "caption", "ocr", "document"},
          svc \in [blip_loaded : BOOLEAN, ocr_available : BOOLEAN,
                   doc_loaded : BOOLEAN],
          outs \in ImageOuts :
          /\ media' = [op |-> "process_image", input |-> image_data,
                       prepared |-> prepare_image(image_data),
                       decodable |-> prepare_image(image_data).ok,
                       mode |-> mode, svc |-> svc, outs |-> outs]
          /\ results' = process_image(prepare_image(image_data).ok, mode, svc, outs)
    /\ pc' = "process_image"
    /\ UNCHANGED <<text, env, ext, record, notes, request, response>>

\* one call of _select_best_transcription(results); the selection is stored
\* under transcription as transcribe_audio stores it
SelectBestTranscription ==
    /\ pc = "ready"
    /\ \E r \in AudioCandidates :
          /\ media' = [op |-> "select_best_transcription", arg |-> r]
          /\ results' = Put(r, "transcription", select_best_transcription(r))
    /\ pc' = "select_best_transcription"
    /\ UNCHANGED <<text, env, ext, record, notes, request, response>>

\* one call of transcribe_audio(audio_data)
TranscribeAudio ==
    /\ pc = "ready"
    /\ \E audio_data \in AudioInputs, cuda \in BOOLEAN,
          loaded \in [cuda_pipeline : BOOLEAN, manual : BOOLEAN,
                      cpu_pipeline : BOOLEAN],
          outs \in AudioOuts :
          \E whisper \in {SpeechToText_initialize_models(cuda, loaded)} :
              /\ media' = [op |-> "transcribe_audio", input |-> audio_data,
                           prepared |-> prepare_audio(audio_data),
                           decodable |-> prepare_audio(audio_data).ok,
                           cuda |-> cuda, loaded |-> loaded,
                           whisper |-> whisper, outs |-> outs]
              /\ results' = transcribe_audio(prepare_audio(audio_data).ok, whisper,
                                 [outs EXCEPT !.sr = sr_outcome(audio_data, outs.sr)])
    /\ pc' = "transcribe_audio"
    /\ UNCHANGED <<text, env, ext, record, notes, request, response>>

NextMedia ==
    \/ SelectBestText
    \/ ProcessImage
    \/ SelectBestTranscription
    \/ TranscribeAudio

SpecMedia == InitMedia /\ [][NextMedia]_vars

----------------------------------------------------------------------------
(* The note write handlers as a state machine: clients send create,        *)
(* update, delete and add-image requests in any order, each handled in one *)
(* step against the notes table.                                           *)

\* stands for a key that a request body does not have
Missing == JsonValue("missing", "", <<>>, NoFields)

\* the JSON object with the given fields, Missing ones left out
Object(f) == Dict([k \in {k \in DOMAIN f : f[k] # Missing} |-> f[k]])

\* what clients put under ai_analysis: nothing, null, an empty string, text
\* that is not JSON, JSON that is not an object, a full analysis (plain and
\* nested under 'analysis'), a partial one, an empty one, an 'analysis' that
\* is no object, keywords and summary of the wrong type, and an object in
\* place of the string
AiPayloads ==
    {Missing, Null, Str(""), Str("not json"),
     Str(dumps(List(<<"a">>))),
     Str(dumps(Dict(FullAnalysis))),
     Str(dumps(Dict("analysis" :> Dict(FullAnalysis)))),
     Str(dumps(Dict(PartialAnalysis))),
     Str(dumps(Dict(NoFields))),
     Str(dumps(Dict("analysis" :> Str("x")))),
     Str(dumps(Dict(NumberKeywords))),
     Str(dumps(Dict(ListSummary))),
     Dict(FullAnalysis)}

NoteBody(title, content, category, ai) ==
    Object([title |-> title, content |-> content, category |-> category,
            ai_analysis |-> ai])

\* request bodies: a note with every payload, another note, no body, an
\* empty object, a body without title
Bodies ==
    {NoteBody(Str("t1"), Str("c1"), Str("work"), ai) : ai \in AiPayloads}
        \cup {NoteBody(Str("t2"), Str("c2"), Missing, Missing),
              NoteBody(Missing, Str("c1"), Missing, Missing),
              Dict(NoFields), Null}

ImageBodies == {Null, Dict("image" :> Str("aGVsbG8="))}

\* what the image service and the enrichment would do during an add-image
\* request, and whether together they take longer than the processing budget
ImageRuns ==
    [service : {TRUE}, decodable : {TRUE},
     svc : {[blip_loaded |-> TRUE, ocr_available |-> TRUE, doc_loaded |-> TRUE]},
     outs : {[caption  |-> [raises |-> FALSE, text |-> "a caption"],
              ocr      |-> [raises |-> FALSE, text |-> " valid text here\n"],
              document |-> [raises |-> FALSE, text |-> ""]]},
     env : {[services_ok |-> TRUE, pipeline_ready |-> TRUE, analyzer_loaded |-> TRUE]},
     ext : {NoExt},
     overrun : BOOLEAN]

InitNotes ==
    /\ text = ""
    /\ env = [services_ok |-> TRUE, pipeline_ready |-> TRUE, analyzer_loaded |-> TRUE]
    /\ ext = NoExt
    /\ record = NoRecord
    /\ pc = "ready"
    /\ media = NoMedia
    /\ results = EmptyDict
    /\ notes = EmptyTable
    /\ request = NoRequest
    /\ response = NoResponse

\* POST /api/notes
CreateNote ==
    /\ LastRowId(notes) \in (1..MaxNotes)
    /\ \E data \in Bodies, timestamp \in (1..MaxTime) :
          \E r \in {create_note(notes, data, timestamp)} :
              /\ notes' = r.db
              /\ response' = r.response
              /\ request' = [op |-> "create", id |-> r.response.note.id,
                             data |-> data, run |-> NoRun]
    /\ UNCHANGED <<text, env, ext, record, pc, media, results>>

\* PUT /api/notes/<note_id>
UpdateNote ==
    /\ \E note_id \in (1..MaxNotes), data \in Bodies, timestamp \in (1..MaxTime) :
          \E r \in {update_note(notes, note_id, data, timestamp)} :
              /\ notes' = r.db
              /\ response' = r.response
              /\ request' = [op |-> "update", id |-> note_id,
                             data |-> data, run |-> NoRun]
    /\ UNCHANGED <<text, env, ext, record, pc, media, results>>

\* DELETE /api/notes/<note_id>
DeleteNote ==
    /\ \E note_id \in (1..MaxNotes) :
          \E r \in {delete_note(notes, note_id)} :
              /\ notes' = r.db
              /\ response' = r.response
              /\ request' = [op |-> "delete", id |-> note_id,
                             data |-> Null, run |-> NoRun]
    /\ UNCHANGED <<text, env, ext, record, pc, media, results>>

\* POST /api/notes/<note_id>/add-image
AddImageToNote ==
    /\ \E note_id \in (1..MaxNotes), data \in ImageBodies, run \in ImageRuns :
          \E r \in {add_image_to_note(notes, note_id, data, run)} :
              /\ notes' = r.db
              /\ response' = r.response
              /\ request' = [op |-> "add_image", id |-> note_id,
                             data |-> data, run |-> run]
    /\ UNCHANGED <<text, env, ext, record, pc, media, results>>

NextNotes ==
    \/ CreateNote
    \/ UpdateNote
    \/ DeleteNote
    \/ AddImageToNote

SpecNotes == InitNotes /\ [][NextNotes]_vars

----------------------------------------------------------------------------
(* The text services called directly, as a state machine: one call of      *)
(* summarize, _split_text, _fallback_summary, extract_keywords, the keyword *)
(* fallback or analyze_sentiment_cuda on a text, with the arguments a       *)
(* caller may give and a model that answers or raises; or the construction  *)
(* of a Summarizer whose loading strategies succeed or fail.                *)

\* texts of up to MaxSentences short sentences and texts with odd white
\* space and periods; texts with word counts around the thresholds of
\* summarize; texts over 800 characters, given as <<word, number of words,
\* period after every p-th word>>: sentences that fit a chunk (two chunks,
\* three chunks of a word so long that fewer than 50 exceed 800 characters)
\* and one sentence that alone exceeds the chunk size
ServiceTexts ==
    {TextOf("ab", "The", n, 1) : n \in 0..MaxSentences}
        \cup {TextOf("alpha", "beta", n, 3) : n \in 0..MaxSentences}
        \cup {" . ", "One.  . Two. Three", ". a. b. c", "x.. y. z. ",
              "red green blue red green red yellow"}
        \cup {TextOf("Superb!", "go", n, p) :
                  n \in {14, 15, 49, 50, 99, 100}, p \in {0, 5}}
        \cup {TextOf(sh[1], sh[1], sh[2], sh[3]) :
                  sh \in {<<"Superb!", MaxLongWords, 10>>,
                          <<"Superb!", MaxLongWords, 0>>,
                          <<"Incomprehensibilities!!!", 40, 4>>,
                          <<"Incomprehensibilities!!!", 80, 4>>}}

\* the max_keywords extract_keywords is called with
KeywordLimits == {1, 2, 10}

InitText ==
    /\ text \in ServiceTexts
    /\ env = [services_ok |-> TRUE, pipeline_ready |-> TRUE, analyzer_loaded |-> TRUE]
    /\ ext = NoExt
    /\ record = NoRecord
    /\ pc = "ready"
    /\ media = NoMedia
    /\ results = EmptyDict
    /\ notes = EmptyTable
    /\ request = NoRequest
    /\ response = NoResponse

\* one call of summarize(text, max_length, min_length); the caller passes
\* the defaults, or values below and above the caps
Summarize ==
    /\ pc = "ready"
    /\ \E pipeline_ready \in BOOLEAN,
          lengths \in {[max_length |-> DefaultMaxLength, min_length |-> DefaultMinLength],
                       [max_length |-> 20, min_length |-> 15],
                       [max_length |-> 60, min_length |-> 5]},
          fails \in SUBSET (1..ModelCalls(text)) :
          /\ pipeline_ready \/ fails = {}
          /\ ext' = [pipeline_ready |-> pipeline_ready, lengths |-> lengths,
                     fails |-> fails]
          /\ record' = summarize(text, lengths.max_length, lengths.min_length,
                                 pipeline_ready, fails)
    /\ pc' = "summarize"
    /\ UNCHANGED <<text, env, media, results, notes, request, response>>

\* one call of _split_text(text, max_chunk_size), with the size summarize
\* passes and with sizes that make short texts split
SplitText ==
    /\ pc = "ready"
    /\ \E max_chunk_size \in {10, 40, max_input_length} :
          /\ ext' = [max_chunk_size |-> max_chunk_size]
          /\ record' = Ok(split_text(text, max_chunk_size))
    /\ pc' = "split_text"
    /\ UNCHANGED <<text, env, media, results, notes, request, response>>

\* one call of _fallback_summary(text)
FallbackSummary ==
    /\ pc = "ready"
    /\ ext' = NoExt
    /\ record' = Ok(fallback_summary(text))
    /\ pc' = "fallback_summary"
    /\ UNCHANGED <<text, env, media, results, notes, request, response>>

\* one call of extract_keywords(text, max_keywords)
ExtractKeywords ==
    /\ pc = "ready"
    /\ \E max_keywords \in KeywordLimits, tfidf \in TfidfOutcomes :
          /\ ext' = [max_keywords |-> max_keywords, tfidf |-> tfidf]
          /\ record' = extract_keywords(text, max_keywords, tfidf)
    /\ pc' = "extract_keywords"
    /\ UNCHANGED <<text, env, media, results, notes, request, response>>

\* one call of extract_keywords_fallback(text, max_keywords)
ExtractKeywordsFallback ==
    /\ pc = "ready"
    /\ \E max_keywords \in KeywordLimits :
          /\ ext' = [max_keywords |-> max_keywords]
          /\ record' = Ok(extract_keywords_fallback(text, max_keywords))
    /\ pc' = "extract_keywords_fallback"
    /\ UNCHANGED <<text, env, media, results, notes, request, response>>

\* one call of analyze_sentiment_cuda(text); TextBlob is reached when the
\* analyzer is missing or raises, and may then give a polarity of exactly
\* -0.1 as well
AnalyzeSentiment ==
    /\ pc = "ready"
    /\ \E analyzer_loaded \in BOOLEAN, primary \in PrimaryOutcomes,
          blob \in BlobOutcomes \cup {[raises |-> FALSE, polarity |-> -10]} :
          /\ analyzer_loaded \/ primary = NoPrimary
          /\ (analyzer_loaded /\ ~primary.raises) => blob = NoBlob
          /\ ext' = [analyzer_loaded |-> analyzer_loaded, primary |-> primary,
                     blob |-> blob,
                     fallback_calls |->
                         sentiment_fallback_calls(text, analyzer_loaded, primary)]
          /\ record' = analyze_sentiment_cuda(text, analyzer_loaded, primary, blob)
    /\ pc' = "analyze_sentiment_cuda"
    /\ UNCHANGED <<text, env, media, results, notes, request, response>>

\* the parameter adjustment of summarize(text, max_length, min_length) for
\* the word count of text and a caller's pair with 0 < min_length <= max_length
AdjustLengths ==
    /\ pc = "ready"
    /\ \E max_length \in {1, 5, 11, 12, 30, 60, DefaultMaxLength},
          min_length \in {1, 5, 11, 12, DefaultMinLength, 60} :
          /\ min_length <= max_length
          /\ ext' = [max_length |-> max_length, min_length |-> min_length]
          /\ record' = Ok(adjusted_lengths(Len(split(text)), max_length, min_length))
    /\ pc' = "adjusted_lengths"
    /\ UNCHANGED <<text, env, media, results, notes, request, response>>

\* Summarizer() followed by get_model_info(); a strategy that is not tried
\* has the one outcome that stands for it
InitializeSummarizer ==
    /\ pc = "ready"
    /\ \E cuda \in BOOLEAN,
          loading \in [cuda_pipeline : BOOLEAN,
                       manual : {"ok", "tokenizer", "model", "to", "pipeline"},
                       cpu_then_gpu : {"ok", "tokenizer", "model", "to", "pipeline"},
                       cpu_pipeline : BOOLEAN] :
          /\ (~cuda \/ loading.cuda_pipeline) => loading.manual = "ok"
          /\ loading.manual = "ok" => loading.cpu_then_gpu = "ok"
          /\ (cuda /\ loading.cpu_then_gpu = "ok") => loading.cpu_pipeline
          /\ ~cuda => loading.cuda_pipeline
          /\ ext' = [cuda |-> cuda, loading |-> loading,
                     loaded |-> Summarizer_initialize_model(cuda, loading)]
          /\ record' = Ok(get_model_info(Summarizer_initialize_model(cuda, loading)))
    /\ pc' = "initialize_model"
    /\ UNCHANGED <<text, env, media, results, notes, request, response>>

NextText ==
    \/ Summarize
    \/ SplitText
    \/ FallbackSummary
    \/ ExtractKeywords
    \/ ExtractKeywordsFallback
    \/ AnalyzeSentiment
    \/ AdjustLengths
    \/ InitializeSummarizer

SpecText == InitText /\ [][NextText]_vars

----------------------------------------------------------------------------
(* Concurrent requests on one note: the server runs each request in a      *)
(* thread of its own (app.run(threaded=True)), and update_note and         *)
(* delete_note each open a connection and execute their statements one     *)
(* after the other.  A step is one statement with the commit that follows  *)
(* it; sqlite serializes the statements of different connections.          *)

\* two threads, and the note 1 stored
InitRace ==
    /\ text = ""
    /\ env = [services_ok |-> TRUE, pipeline_ready |-> TRUE, analyzer_loaded |-> TRUE]
    /\ ext = NoExt
    /\ record = NoRecord
    /\ media = NoMedia
    /\ results = EmptyDict
    /\ notes = create_note(EmptyTable,
                           NoteBody(Str("t0"), Str("c0"), Missing, Missing), 1).db
    /\ pc = [t \in {1, 2} |-> "idle"]
    /\ request = [t \in {1, 2} |-> NoRequest]
    /\ response = [t \in {1, 2} |-> NoResponse]

\* a PUT or DELETE request for the note arrives and its handler starts; the
\* bodies of the update requests differ in every field
Receive(t) ==
    /\ pc[t] = "idle"
    /\ \/ \E data \in {NoteBody(Str("t1"), Str("c1"), Str("work"),
                                 Str(dumps(Dict(FullAnalysis)))),
                        NoteBody(Str("t2"), Str("c2"), Str("home"), Missing)} :
              request' = [request EXCEPT ![t] =
                             [op |-> "update", id |-> 1, data |-> data,
                              run |-> NoRun]]
       \/ request' = [request EXCEPT ![t] =
                         [op |-> "delete", id |-> 1, data |-> Null,
                          run |-> NoRun]]
    /\ pc' = [pc EXCEPT ![t] = "check"]
    /\ UNCHANGED <<text, env, ext, record, media, results, notes, response>>

\* update_note: SELECT id FROM notes WHERE id = ?, and the 404 response
UpdateCheck(t) ==
    /\ pc[t] = "check" /\ request[t].op = "update"
    /\ IF request[t].id \in DOMAIN notes
       THEN pc' = [pc EXCEPT ![t] = "write"] /\ UNCHANGED response
       ELSE /\ pc' = [pc EXCEPT ![t] = "done"]
            /\ response' = [response EXCEPT ![t] = Response(404, NoNote)]
    /\ UNCHANGED <<text, env, ext, record, media, results, notes, request>>

\* update_note: UPDATE notes SET ... WHERE id = ? and commit; the statement
\* changes no row when the note is gone
UpdateWrite(t) ==
    /\ pc[t] = "write" /\ request[t].op = "update"
    /\ \E timestamp \in 1..MaxTime :
          notes' = IF request[t].id \in DOMAIN notes
                   THEN update_note(notes, request[t].id, request[t].data,
                                    timestamp).db
                   ELSE notes
    /\ pc' = [pc EXCEPT ![t] = "read"]
    /\ UNCHANGED <<text, env, ext, record, media, results, request, response>>

\* update_note: SELECT ... FROM notes WHERE id = ?, and the response built
\* from the row, or the 500 response when there is no row
UpdateRead(t) ==
    /\ pc[t] = "read" /\ request[t].op = "update"
    /\ response' = [response EXCEPT ![t] =
                       IF request[t].id \in DOMAIN notes
                       THEN Response(200, NoteOf(request[t].id, notes[request[t].id]))
                       ELSE Response(500, NoNote)]
    /\ pc' = [pc EXCEPT ![t] = "done"]
    /\ UNCHANGED <<text, env, ext, record, media, results, notes, request>>

\* delete_note: SELECT COUNT(*) FROM notes WHERE id = ?, and the 404 response
DeleteCheck(t) ==
    /\ pc[t] = "check" /\ request[t].op = "delete"
    /\ IF request[t].id \in DOMAIN notes
       THEN pc' = [pc EXCEPT ![t] = "write"] /\ UNCHANGED response
       ELSE /\ pc' = [pc EXCEPT ![t] = "done"]
            /\ response' = [response EXCEPT ![t] = Response(404, NoNote)]
    /\ UNCHANGED <<text, env, ext, record, media, results, notes, request>>

\* delete_note: DELETE FROM notes WHERE id = ? and commit, and the response
DeleteWrite(t) ==
    /\ pc[t] = "write" /\ request[t].op = "delete"
    /\ notes' = delete_note(notes, request[t].id).db
    /\ response' = [response EXCEPT ![t] = Response(200, NoNote)]
    /\ pc' = [pc EXCEPT ![t] = "done"]
    /\ UNCHANGED <<text, env, ext, record, media, results, request>>

NextRace ==
    \E t \in {1, 2} :
        \/ Receive(t)
        \/ UpdateCheck(t)
        \/ UpdateWrite(t)
        \/ UpdateRead(t)
        \/ DeleteCheck(t)
        \/ DeleteWrite(t)

SpecRace == InitRace /\ [][NextRace]_vars

----------------------------------------------------------------------------
(* Properties of the enrichment pipeline (checked under SpecEnrich).       *)

Done == pc = "done"

RecordKeys == {"summary", "keywords", "sentiment", "statistics"}

SummaryOfShortTextIsText ==
    (Done /\ text # "") =>
        /\ record.val.summary # ""
        /\ Len(split(text)) < MinWords => record.val.summary = text

NoDuplicates(seq) ==
    \A i \in 1..Len(seq) : \A j \in 1..Len(seq) : i # j => seq[i] # seq[j]

\* C3: the keyword list has at most 10 entries and no duplicate entries.
KeywordsBoundedAndDistinct ==
    Done => (Len(record.val.keywords) <= 10 /\ NoDuplicates(record.val.keywords))

\* C4: the sentiment is one of positive, negative, neutral, and a primary
\* classification with confidence below 0.6 yields neutral whatever the label.
SentimentWellFormed ==
    Done =>
        /\ record.val.sentiment \in Sentiments
        /\ (/\ env.services_ok /\ env.analyzer_loaded
            /\ ~ext.primary.raises
            /\ ext.primary.score < ConfidenceThreshold)
              => record.val.sentiment = "neutral"

\* C4 witness: the classifier answered POSITIVE with confidence 0.59
LowConfidencePositive ==
    /\ Done
    /\ env.services_ok /\ env.analyzer_loaded
    /\ ~ext.primary.raises
    /\ ext.primary.label = "POSITIVE"
    /\ ext.primary.score = 59
    /\ record.val.sentiment = "neutral"

\* C5: the statistics of every record have all six keys, and every count is 0
\* for the empty text.
StatisticsComplete ==
    Done =>
        /\ DOMAIN record.val.statistics = StatKeys
        /\ text = "" =>
              /\ record.val.statistics.word_count = 0
              /\ record.val.statistics.sentence_count = 0
              /\ record.val.statistics.paragraph_count = 0
              /\ record.val.statistics.character_count = 0

----------------------------------------------------------------------------
(* Properties of the media adapters (checked under SpecMedia).             *)

\* an error string: one that contains 'error' in any capitalization
IsErrorString(x) == Contains(Lower(x), "error")

Usable(x) == x # "" /\ ~IsErrorString(x)

\* C9: in auto mode the image adapter selects document_text if it is
\* non-empty, longer than 10 characters and not an error string; otherwise
\* ocr_text if non-empty, longer than 5 characters and not an error string;
\* otherwise caption if non-empty and not an error string; otherwise the
\* sentinel.  With document_text empty, ocr_text 'valid text here' and a
\* caption present, the OCR text is selected.
BestTextPolicy ==
    /\ (pc = "process_image" /\ media.decodable /\ media.mode = "auto")
          => "best_text" \in DOMAIN results
    /\ (pc \in {"select_best_text", "process_image"} /\ "best_text" \in DOMAIN results)
          => LET d == Get(results, "document_text", "")
                 o == Get(results, "ocr_text", "")
                 c == Get(results, "caption", "")
             IN  /\ results["best_text"] =
                        IF Usable(d) /\ Len(d) > 10 THEN d
                        ELSE IF Usable(o) /\ Len(o) > 5 THEN o
                        ELSE IF Usable(c) THEN c
                        ELSE "No text could be extracted from the image"
                 /\ (d = "" /\ o = "valid text here" /\ c # "")
                        => results["best_text"] = "valid text here"

\* C9 witness: document_text empty, ocr_text 'valid text here', a caption
OcrPreferredOverCaption ==
    /\ pc = "select_best_text"
    /\ DOMAIN results = {"document_text", "ocr_text", "caption", "best_text"}
    /\ results["document_text"] = ""
    /\ results["ocr_text"] = "valid text here"
    /\ results["caption"] = "a caption"
    /\ results["best_text"] = "valid text here"

\* C10: the audio adapter selects the whisper candidate if it is non-empty,
\* does not contain 'error' in any capitalization and is longer than 5
\* characters; otherwise the speech_recognition candidate if it is non-empty
\* and does not contain 'error'; otherwise 'Could not transcribe audio'.
BestTranscriptionPolicy ==
    (pc \in {"select_best_transcription", "transcribe_audio"}
        /\ "transcription" \in DOMAIN results)
      => LET w  == Get(results, "whisper", "")
             sr == Get(results, "speech_recognition", "")
         IN  results["transcription"] =
                 IF Usable(w) /\ Len(w) > 5 THEN w
                 ELSE IF Usable(sr) THEN sr
                 ELSE "Could not transcribe audio"

\* C10 witness: a Whisper text of 5 characters loses to the recognizer's text
ShortWhisperLoses ==
    /\ pc = "select_best_transcription"
    /\ "whisper" \in DOMAIN results
    /\ "speech_recognition" \in DOMAIN results
    /\ results["whisper"] = "Hello"
    /\ results["speech_recognition"] = "ok"
    /\ results["transcription"] = "ok"

\* the result that only reports an error
ErrorResult(message) == Put(EmptyDict, "error", message)

BothCandidatesPresent ==
    (pc = "transcribe_audio" /\ media.prepared.ok)
      => {"whisper", "speech_recognition", "transcription"} \subseteq DOMAIN results

\* C13: each adapter decodes a base64 string, a base64 string behind a
\* data-URL header, raw bytes and an open file handle to the same media, and
\* reports an error in the result for every other input (a path object,
\* which the audio adapter loads as well, is left aside).
AllInputFormsDecoded ==
    /\ pc = "transcribe_audio"
          => IF media.input \in InputForms(WavBase64, "data:audio/wav;base64,", WavBytes)
             THEN media.prepared = Ok("audio A")
                      /\ "error" \notin DOMAIN results
             ELSE media.input.type # "path" => "error" \in DOMAIN results
    /\ pc = "process_image"
          => IF media.input \in InputForms(PngBase64, "data:image/png;base64,", PngBytes)
             THEN media.prepared = Ok("image A")
                      /\ "error" \notin DOMAIN results
             ELSE "error" \in DOMAIN results

\* the strings with which a sub-model reports that it is absent or that it
\* found nothing
Placeholders ==
    {"Document processor not available", "No document text detected",
     "OCR not available", "No text detected", "Caption model not available",
     "Whisper model not available", "Could not understand audio",
     "Speech recognition failed"}

\* C25: the text an adapter selects is never one of the strings with which
\* a sub-model reports that it is absent or that it found nothing; such a
\* candidate is passed over like an error string.
PlaceholderNeverSelected ==
    /\ (pc = "process_image" /\ "best_text" \in DOMAIN results)
          => results["best_text"] \notin Placeholders
    /\ (pc = "transcribe_audio" /\ "transcription" \in DOMAIN results)
          => results["transcription"] \notin Placeholders

\* C27: when one of the loading strategies of Whisper succeeded during
\* initialization (the CUDA pipeline, the manual CUDA model and processor,
\* the CPU pipeline), transcribe_audio on decodable audio runs Whisper and
\* the result has a whisper candidate; Whisper is skipped only when every
\* strategy that was tried failed.
WhisperRunsWhenLoaded ==
    (pc = "transcribe_audio" /\ media.prepared.ok)
      => ("whisper" \in DOMAIN results
            <=> IF media.cuda
                THEN \/ media.loaded.cuda_pipeline
                     \/ media.loaded.manual
                     \/ media.loaded.cpu_pipeline
                ELSE media.loaded.cpu_pipeline)

----------------------------------------------------------------------------
(* Properties of the note write handlers (checked under SpecNotes).        *)

\* the body carries a title and a content, both strings
CarriesNote(data) ==
    /\ data.t = "dict"
    /\ "title" \in DOMAIN data.fields /\ data.fields["title"].t = "str"
    /\ "content" \in DOMAIN data.fields /\ data.fields["content"].t = "str"

\* C6: a create or update request that carries a note (and, for an update,
\* addresses a note that exists) is answered 2xx with the note persisted,
\* whatever is attached as ai_analysis.
WriteNeverFailsOnAiData ==
    (/\ request.op \in {"create", "update"}
     /\ CarriesNote(request.data)
     /\ response.status # 404)
      => /\ response.status \in {200, 201}
         /\ response.note.id \in DOMAIN notes
         /\ notes[response.note.id].title = request.data.fields["title"]
         /\ notes[response.note.id].content = request.data.fields["content"]

\* C7: a write whose enrichment exceeds the processing budget still
\* completes: the enrichment is abandoned and the note is persisted with its
\* enrichment fields empty and ai_processed false.
OverrunWriteStillPersists ==
    (/\ request.op = "add_image"
     /\ request.id \in DOMAIN notes
     /\ request.data.t = "dict" /\ "image" \in DOMAIN request.data.fields
     /\ request.run.overrun)
      => /\ response.status = 200
         /\ notes[request.id].summary = Null
         /\ notes[request.id].sentiment = Null
         /\ notes[request.id].keywords = Null
         /\ ~notes[request.id].ai_processed

\* the enrichment fields of a row
Enrichment(row) ==
    [summary |-> row.summary, sentiment |-> row.sentiment,
     keywords |-> row.keywords, ai_processed |-> row.ai_processed]

\* rows a note may hold before an update: enriched, and not
PriorRows ==
    {[title |-> Str("old"), content |-> Str("old content"), category |-> Null,
      ai_processed |-> TRUE, summary |-> Str("old summary"),
      sentiment |-> Str("negative"), keywords |-> Str("[\"old\"]"),
      updated_at |-> 1, has_image |-> FALSE, image_text |-> Null,
      audio_text |-> Null],
     [title |-> Str("old"), content |-> Str("old content"), category |-> Null,
      ai_processed |-> FALSE, summary |-> Null, sentiment |-> Null,
      keywords |-> Null, updated_at |-> 1, has_image |-> FALSE,
      image_text |-> Null, audio_text |-> Null]}

\* C8: after an update the enrichment fields of the note are those the same
\* request gives to any other note, whatever that note held before (they
\* derive from the request alone), and applying the request again, at any
\* time, leaves the same row apart from updated_at.
UpdateOverwritesWholesale ==
    (request.op = "update" /\ response.status = 200)
      => LET stored == notes[request.id]
         IN  /\ \A prior \in PriorRows :
                    LET other == update_note(request.id :> prior, request.id,
                                             request.data, stored.updated_at)
                    IN  /\ other.response.status = 200
                        /\ Enrichment(other.db[request.id]) = Enrichment(stored)
             /\ \A timestamp \in (1..MaxTime) :
                    LET again == update_note(notes, request.id, request.data,
                                             timestamp)
                    IN  /\ again.response.status = 200
                        /\ [again.db[request.id] EXCEPT !.updated_at = 0]
                               = [stored EXCEPT !.updated_at = 0]

\* C8 witness: an update that brings only a summary has been applied: the
\* note holds that summary and neither sentiment nor keywords
PartialUpdateApplied ==
    /\ request.op = "update"
    /\ response.status = 200
    /\ DictGet(request.data, "ai_analysis", Null) = Str(dumps(Dict(PartialAnalysis)))
    /\ notes[request.id].summary = Str("s1")
    /\ notes[request.id].sentiment = Null
    /\ notes[request.id].keywords = Null
    /\ notes[request.id].ai_processed

\* C23: POST add-image for a note that exists, with an image that decodes
\* and the image service available, is answered with success; the note then
\* holds the selected text as image_text, has_image true, and the summary,
\* keywords and sentiment of the enrichment of its full text.
AddImageSucceeds ==
    (/\ request.op = "add_image"
     /\ request.id \in DOMAIN notes
     /\ request.data.t = "dict" /\ "image" \in DOMAIN request.data.fields
     /\ request.run.service /\ request.run.decodable)
      => /\ response.status = 200
         /\ notes[request.id].has_image
         /\ notes[request.id].image_text = Str("valid text here")
         /\ Truthy(notes[request.id].summary)
         /\ Truthy(notes[request.id].sentiment)

\* C24: a stored note has ai_processed true only if the request that wrote
\* it carried an ai_analysis that was parsed; a create or update whose
\* ai_analysis is present and cannot be parsed leaves ai_processed false.
ProcessedMeansParsed ==
    (/\ request.op \in {"create", "update"}
     /\ response.status \in {200, 201}
     /\ request.id \in DOMAIN notes)
      => (notes[request.id].ai_processed
            <=> ReadAiAnalysis(request.data).parsed)

----------------------------------------------------------------------------
(* Properties of the text services (checked under SpecText).               *)

\* the number of words of the input text
WordCount == Len(split(text))

Occurrences(kw) ==
    LET words == split(clean_text(text))
        terms == words \o TfidfTerms(clean_text(text))
    IN  Cardinality({i \in DOMAIN terms : terms[i] = kw})

\* C15: for every text and every k, extract_keywords(text, k) returns at
\* most k keywords, none after one that is less relevant (that occurs less
\* often in the text).
KeywordsAtMostK ==
    pc = "extract_keywords"
      => /\ record.ok
         /\ Len(record.val) <= ext.max_keywords
         /\ \A i \in 1..(Len(record.val) - 1) :
                Occurrences(record.val[i]) >= Occurrences(record.val[i + 1])

\* all the elements of the sequences of a sequence, in order
RECURSIVE Flatten(_)
Flatten(seqs) == IF seqs = <<>> THEN <<>> ELSE Head(seqs) \o Flatten(Tail(seqs))

\* the sentences a chunk is made of: each one is followed by '. ' in the
\* chunk, of which strip() removed the last space
SentencesOf(chunk) ==
    SubSeq(SplitOn(chunk \o " ", ". "), 1, Len(SplitOn(chunk \o " ", ". ")) - 1)

Stripped(seq) == [i \in 1..Len(seq) |-> Strip(seq[i])]

\* the chunks are made of the sentences of t, each sentence in one chunk, in
\* the order of t (up to the white space strip() removes)
SentenceAligned(chunks, t) ==
    Stripped(Flatten([k \in 1..Len(chunks) |-> SentencesOf(chunks[k])]))
        = Stripped(SplitOn(t, ". "))

\* C16: for a text longer than the chunk size, _split_text partitions the
\* sentences that splitting on '. ' gives: every sentence is in exactly one
\* chunk, in the original order, and no chunk is empty.
SplitKeepsEverySentence ==
    (pc = "split_text" /\ Len(text) > ext.max_chunk_size)
      => /\ SentenceAligned(record.val, text)
         /\ \A k \in 1..Len(record.val) : record.val[k] # ""
         /\ Len(record.val) >= 1

\* C16 witness: a text over 800 characters split at 800 into several chunks
LongTextSplitInTwo ==
    /\ pc = "split_text"
    /\ ext.max_chunk_size = 800
    /\ Len(text) > 800
    /\ Len(record.val) = 2
    /\ Len(SentencesOf(record.val[1])) = 9
    /\ Len(SentencesOf(record.val[2])) >= 2

\* C17: for a text over 800 characters, every chunk of the splitter is made
\* of whole sentences and is at most 800 characters long.
ChunksWithinThreshold ==
    (pc = "split_text" /\ ext.max_chunk_size = 800 /\ Len(text) > 800)
      => /\ SentenceAligned(record.val, text)
         /\ \A k \in 1..Len(record.val) : Len(record.val[k]) <= 800

\* the summary the model gives for a chunk under the bounds that summarize
\* derives from the word count of the text and the caller's bounds
ModelSummaryOf(chunk) ==
    LET b == adjusted_lengths(WordCount, ext.lengths.max_length,
                              ext.lengths.min_length)
    IN  BartSummary(chunk, b.max_length, b.min_length)

\* C18: in chunked summarization the final summary is the per-chunk results
\* joined with single spaces in chunk order: the fallback of the chunk for
\* exactly the chunks on which the model raises, the model's summary for
\* every other chunk.
ChunkFailureIsLocal ==
    (/\ pc = "summarize"
     /\ ext.pipeline_ready
     /\ WordCount >= 15
     /\ Len(text) > 800)
      => LET chunks == split_text(text, 800)
         IN  /\ record.ok
             /\ record.val =
                    Join([i \in 1..Len(chunks) |->
                            IF i \in ext.fails THEN fallback_summary(chunks[i])
                            ELSE ModelSummaryOf(chunks[i])], " ")

\* C18 witness: of three chunks the model raises on the second one only
MiddleChunkFails ==
    /\ pc = "summarize"
    /\ ext.pipeline_ready
    /\ Len(text) > 800
    /\ Len(split_text(text, 800)) = 3
    /\ ext.fails = {2}
    /\ record.ok
    /\ record.val = ModelSummaryOf(split_text(text, 800)[1]) \o " "
                        \o fallback_summary(split_text(text, 800)[2]) \o " "
                        \o ModelSummaryOf(split_text(text, 800)[3])

\* the fragments between the periods of the text that are not blank,
\* stripped
FallbackSentences ==
    Stripped(SelectSeq(SplitOn(text, "."), LAMBDA f : Strip(f) # ""))

\* C19: the extractive fallback returns the text unchanged if it has at most
\* 2 sentences, its first 2 sentences if it has 3 to 5, its first 3 if it
\* has more than 5, joined with '. ' and followed by a period.
FallbackTakesLeadingSentences ==
    pc = "fallback_summary"
      => LET n  == Len(FallbackSentences)
             s1 == FallbackSentences[1]
             s2 == FallbackSentences[2]
             s3 == FallbackSentences[3]
         IN  /\ record.ok
             /\ n <= 2 => record.val = text
             /\ n \in 3..5 => record.val = s1 \o ". " \o s2 \o "."
             /\ n > 5 => record.val = s1 \o ". " \o s2 \o ". " \o s3 \o "."

\* C19 witness: six sentences give the first three
SixSentencesGiveThree ==
    /\ pc = "fallback_summary"
    /\ text = "ab. The. ab. The. ab. The."
    /\ record.val = "ab. The. ab."

\* C20: the bounds passed to the model.  Below 50 words max_length is
\* max(word_count/2, 15) and min_length max(word_count/4, 5) whatever the
\* caller gave; from 50 to 99 words max_length is capped at
\* max(word_count/2, 20) and min_length at max(max_length/3, 10); from 100
\* words on the caller's bounds are passed unchanged (divisions are integer
\* divisions).
AdaptiveBounds ==
    (/\ pc = "summarize"
     /\ ext.pipeline_ready
     /\ WordCount >= 15
     /\ ext.fails = {})
      => LET given  == ext.lengths
             maxlen == IF WordCount < 50 THEN Max2(WordCount \div 2, 15)
                       ELSE IF WordCount < 100
                       THEN Min2(given.max_length, Max2(WordCount \div 2, 20))
                       ELSE given.max_length
             minlen == IF WordCount < 50 THEN Max2(WordCount \div 4, 5)
                       ELSE IF WordCount < 100
                       THEN Min2(given.min_length, Max2(maxlen \div 3, 10))
                       ELSE given.min_length
             inputs == IF Len(text) > 800 THEN split_text(text, 800)
                       ELSE <<text>>
         IN  /\ record.ok
             /\ record.val =
                    Join([i \in 1..Len(inputs) |->
                            BartSummary(inputs[i], maxlen, minlen)], " ")

\* C20 witness: 99 words with the default bounds 150 and 30 reach the model
\* as 49 and 16
NinetyNineWordsCapped ==
    /\ pc = "summarize"
    /\ ext.pipeline_ready /\ ext.fails = {}
    /\ WordCount = 99
    /\ ext.lengths = [max_length |-> 150, min_length |-> 30]
    /\ record.val = BartSummary(text, 49, 16)

\* the words of the cleaned text that are no stop words and longer than 2
\* characters, and the number of times a word occurs in the cleaned text
FallbackCandidates ==
    LET toks == split(clean_text(text))
    IN  {toks[i] : i \in {j \in DOMAIN toks :
                              toks[j] \notin stop_words /\ Len(toks[j]) > 2}}

Frequency(w) ==
    LET toks == split(clean_text(text))
    IN  Cardinality({i \in DOMAIN toks : toks[i] = w})

\* C21: the keyword fallback counts the normalized tokens that are no stop
\* words and are longer than 2 characters, and returns the k most frequent
\* ones in descending order of frequency; it returns a value for every
\* text, the empty sequence for the empty text; extract_keywords returns
\* just that when the scoring raises.
FallbackIsFrequencyCount ==
    /\ pc = "extract_keywords_fallback"
          => LET kws == record.val
             IN  /\ record.ok
                 /\ Len(kws) = Min2(ext.max_keywords, Cardinality(FallbackCandidates))
                 /\ \A i \in DOMAIN kws : kws[i] \in FallbackCandidates
                 /\ \A i, j \in DOMAIN kws :
                        i < j => /\ kws[i] # kws[j]
                                 /\ Frequency(kws[i]) >= Frequency(kws[j])
                 /\ \A w \in FallbackCandidates \ {kws[i] : i \in DOMAIN kws} :
                        \A i \in DOMAIN kws : Frequency(kws[i]) >= Frequency(w)
                 /\ text = "" => kws = <<>>
    /\ (/\ pc = "extract_keywords"
        /\ ext.tfidf = "raises"
        /\ Len(split(clean_text(text))) >= 5)
          => record = Ok(extract_keywords_fallback(text, ext.max_keywords))

\* C21 witness: of 'red' (3 times), 'green' (2), 'blue' and 'yellow' the
\* two most frequent are returned
TwoMostFrequent ==
    /\ pc = "extract_keywords_fallback"
    /\ text = "red green blue red green red yellow"
    /\ ext.max_keywords = 2
    /\ record.val = <<"red", "green">>

\* C22: when the sentiment analyzer is missing or raises, the sentiment is
\* the one of the polarity heuristic: positive above 0.1, negative below
\* -0.1, neutral otherwise (exactly 0.1 and -0.1 are neutral), and neutral
\* when the heuristic itself fails; the call returns, it does not raise.
SentimentFallbackTier ==
    (pc = "analyze_sentiment_cuda" /\ (~ext.analyzer_loaded \/ ext.primary.raises))
      => /\ record.ok
         /\ record.val = IF ext.blob.raises THEN "neutral"
                         ELSE IF ext.blob.polarity > 10 THEN "positive"
                         ELSE IF ext.blob.polarity < -10 THEN "negative"
                         ELSE "neutral"

\* C22 witness: the analyzer raises and the polarity is exactly -0.1
PolarityAtThreshold ==
    /\ pc = "analyze_sentiment_cuda"
    /\ ext.analyzer_loaded /\ ext.primary.raises
    /\ ~ext.blob.raises /\ ext.blob.polarity = -10
    /\ record = Ok("neutral")

\* C28: for a text of at least 15 words and a caller's pair with
\* 0 < min_length <= max_length, the adjusted pair satisfies
\* 0 < min_length <= max_length.
AdjustedBoundsOrdered ==
    (/\ pc = "adjusted_lengths"
     /\ WordCount >= 15
     /\ 0 < ext.min_length /\ ext.min_length <= ext.max_length)
      => /\ 0 < record.val.min_length
         /\ record.val.min_length <= record.val.max_length

\* C28 witness: 50 words with the caller's pair 150 and 30 give 25 and 10
FiftyWordsCapped ==
    /\ pc = "adjusted_lengths"
    /\ WordCount = 50
    /\ ext = [max_length |-> 150, min_length |-> 30]
    /\ record.val = [max_length |-> 25, min_length |-> 10]

\* C29: every text analyze_sentiment_cuda hands to the fallback classifier
\* is the caller's text in full, whether the analyzer is missing or raised;
\* only the analyzer gets the text cut to 500 characters.
FallbackGetsFullText ==
    pc = "analyze_sentiment_cuda"
      => \A i \in DOMAIN ext.fallback_calls : ext.fallback_calls[i] = text

\* C30: after the construction of a Summarizer, whichever loading strategies
\* succeeded or failed, get_model_info reports loading_method
\* 'manual_loading' exactly when the active pipeline was built from a
\* manually loaded model, and model_loaded false whenever pipeline_ready is
\* false.
ModelInfoConsistent ==
    pc = "initialize_model"
      => /\ (record.val.loading_method = "manual_loading"
                <=> ext.loaded.summarizer = "from_model")
         /\ ~record.val.pipeline_ready => ~record.val.model_loaded

----------------------------------------------------------------------------
(* Properties of concurrent requests (checked under SpecRace).             *)

\* C26: an update that runs concurrently with a delete or another update
\* of the same note behaves as if it ran alone at some moment: it answers
\* 404 when the note is gone, or 200 with the values of its own request;
\* it never answers 500 and never returns the values of another request.
UpdateIsAtomic ==
    \A t \in DOMAIN pc :
        (pc[t] = "done" /\ request[t].op = "update")
          => \/ response[t].status = 404
             \/ \E timestamp \in 1..MaxTime, prior \in PriorRows :
                    response[t] = update_note(request[t].id :> prior, request[t].id,
                                              request[t].data, timestamp).response

====
